---- MODULE Spec2Model ----
(***************************************************************************)
(* Model of the comfypod Downloader Worker (downloader.ts): the preflight  *)
(* classifier, the per-host download queues, the Worker Status record and  *)
(* the phase state machine.                                                *)
(*                                                                         *)
(* The Worker is a single Node.js process.  Every action below is one run  *)
(* of the event loop between two suspension points (await): the code       *)
(* between two awaits runs without interleaving, so it is one step.        *)
(* A promise rejection that nothing catches (fetch or reader.read()        *)
(* rejecting on a dropped connection) propagates through                   *)
(* downloadDomainQueue, Promise.all and main(), and ends the process.      *)
(***************************************************************************)
EXTENDS Integers, Sequences, FiniteSets, TLC

\* ---------------------------------------------------------------- bounds
\* Largest number of entries in the job list.
MaxJobs == 2
\* Largest number of one-byte chunks a response body delivers.
MaxBytes == 1

\* ------------------------------------------------------------ value sets
Undefined == "undefined"

\* Hostnames the job list draws its URLs from.
Hosts == {"huggingface.co", "civitai.com"}

\* Destination paths: one per position of the job list.
DestOf(k) == "d" \o ToString(k)
Dests == {DestOf(k) : k \in 1..MaxJobs}

\* Digests: HGood is the digest the job list configures, HEmpty the digest
\* of the empty file, HOther any other digest.
HGood == "H1"
HOther == "H2"
HEmpty == "H0"
Hashes == {HGood, HOther}

\* Sizes the probe reports: 0 (unknown) or the length of the remote file.
Sizes == {0, 1}

\* A file of the storage root: present or not, its size and its digest.
NoFile == [exists |-> FALSE, size |-> 0, hash |-> HEmpty]
File(n, h) == [exists |-> TRUE, size |-> n, hash |-> h]
\* Files a destination may hold before the Worker starts.
InitialFiles == {NoFile} \cup {File(n, h) : n \in {1, 2}, h \in Hashes}

\* A URL: its hostname and its path (one remote path per destination).
PathOf(d) == "/" \o d
Url(h, d) == [hostname |-> h, path |-> PathOf(d)]
Model(h, d, s) == [url |-> Url(h, d), dest |-> d, sha256 |-> s]

\* Job lists: the first entry is on the first host (the Worker treats all
\* hostnames alike), the entries with a configured hash come first, entry k
\* goes to its own destination, and the last entry may instead repeat the
\* destination of the first one (the duplicate case).
FirstHost == "huggingface.co"
JobLists ==
  UNION {
    { [k \in 1..n |-> Model(hs[k],
                            IF dupLast /\ k = n THEN DestOf(1) ELSE DestOf(k),
                            ss[k])] :
        hs \in {f \in [1..n -> Hosts] : n >= 1 => f[1] = FirstHost},
        ss \in {[k \in 1..n |-> IF k <= j THEN HGood ELSE Undefined] : j \in 0..n},
        dupLast \in {d \in BOOLEAN : d => n >= 2} }
    : n \in 0..MaxJobs }

\* Keys of Map.groupBy(modelsWithSize, getDomain).
DomainKeys == Hosts \cup {PathOf(d) : d \in Dests}

\* ------------------------------------------------------------- variables
VARIABLES
  env,            \* process.env: MODELS present or not, and its parsed value
  fs,             \* TARGET_DIR: destination -> file
  status,         \* the StatusInternal singleton
  pc,             \* position of main()
  i,              \* index of the entry the preflight loop handles next
  modelsWithSize, \* entries that need a download, with their probed size
  activeFiles,    \* Set<string> shared by the domain queues
  queue,          \* per domain key: state of downloadDomainQueue
  preflightLog,   \* history: per entry, probed size and skip decision
  errored,        \* history: destinations that met a transfer/integrity error
  nTerminated,    \* history: number of downloadModel calls that returned
  STATUS_TOKEN,   \* process.env.STATUS_TOKEN of the Worker
  response,       \* the last request the status server handled, and its answer
  sp,             \* setup(): position, attempt and local variables
  pods,           \* the cloud provider's pods named config.cpu.podName
  podWorker,      \* the Worker running in the pod setup() works with
  polls,          \* history: what setup() did to which pod
  now,            \* Date.now() of the Worker, in ms since it started
  speedSamples,   \* the speedSamples array
  speed,          \* status.speed, as the fraction bytes / ms
  speedFrom,      \* history: the sample times status.speed was computed from
  authEnv,        \* process.env.HF_TOKEN and CIVITAI_TOKEN of the Worker
  request,        \* the last request the Worker sent to a remote host
  run,            \* which Worker process on the volume this is: 1, 2, ...
  partial         \* history: destinations an ended Worker left partly written

\* The variables of the Worker process.
workerVars == <<env, fs, status, pc, i, modelsWithSize, activeFiles, queue,
                preflightLog, errored, nTerminated>>

\* The variables of the status server's clients.
serverVars == <<STATUS_TOKEN, response>>

\* The variables of the orchestrator (setup.ts) and of the cloud provider.
setupVars == <<sp, pods, podWorker, polls>>

\* The variables of the components modelled on their own.
speedVars == <<now, speedSamples, speed, speedFrom>>
authVars == <<authEnv, request>>
retryVars == <<run, partial>>
auxVars == <<speedVars, authVars, retryVars>>

vars == <<workerVars, serverVars, setupVars, auxVars>>

\* ----------------------------------------------------------- pure helpers
\* (changed) groups by the path of the URL instead of its hostname
getDomainByPath(url) == url.path

getDomain(url) == url.hostname

SizeMismatchReason(expected, got) ==
  "size mismatch: expected " \o ToString(expected) \o ", got " \o ToString(got)

HttpFailureReason == "404 Not Found"

FileResult(file, st, reason) == [file |-> file, status |-> st, reason |-> reason]

CountStatus(results, st) ==
  Cardinality({k \in 1..Len(results) : results[k].status = st})

\* { ...status, success, failed, skipped } (the speed field is left out)
serializeStatus(s) ==
  [phase |-> s.phase, currentFiles |-> s.currentFiles,
   totalFiles |-> s.totalFiles,
   overallDownloadedBytes |-> s.overallDownloadedBytes,
   overallTotalBytes |-> s.overallTotalBytes,
   results |-> s.results, error |-> s.error,
   success |-> CountStatus(s.results, "success"),
   failed |-> CountStatus(s.results, "failed"),
   skipped |-> CountStatus(s.results, "skipped")]

\* (changed) consults the size before the configured hash
checkNeedsDownloadSizeFirst(model, remoteSize, files) ==
  LET f == files[model.dest] IN
  IF ~f.exists THEN [skip |-> FALSE, reason |-> Undefined]
  ELSE IF remoteSize > 0 /\ f.size = remoteSize
    THEN [skip |-> TRUE, reason |-> "size match"]
  ELSE IF remoteSize > 0 /\ f.size # remoteSize
    THEN [skip |-> FALSE, reason |-> Undefined]
  ELSE IF model.sha256 # Undefined
    THEN IF f.hash = model.sha256
           THEN [skip |-> TRUE, reason |-> "hash match"]
           ELSE [skip |-> FALSE, reason |-> Undefined]
  ELSE [skip |-> TRUE, reason |-> "file exists"]

checkNeedsDownload(model, remoteSize, files) ==
  LET f == files[model.dest] IN
  IF ~f.exists THEN [skip |-> FALSE, reason |-> Undefined]
  ELSE IF model.sha256 # Undefined
    THEN IF f.hash = model.sha256
           THEN [skip |-> TRUE, reason |-> "hash match"]
           ELSE [skip |-> FALSE, reason |-> Undefined]
  ELSE IF remoteSize > 0 /\ f.size = remoteSize
    THEN [skip |-> TRUE, reason |-> "size match"]
  ELSE IF remoteSize > 0 /\ f.size # remoteSize
    THEN [skip |-> FALSE, reason |-> Undefined]
  ELSE [skip |-> TRUE, reason |-> "file exists"]

\* Responses to the size probe, and the size fetchFileSize returns for each.
ProbeResponses ==
  [kind : {"partial"}, total : Sizes]          \* 206 with content-range
    \cup [kind : {"ok"}, total : Sizes]        \* 2xx/206 with content-length
    \cup [kind : {"error", "throw"}, total : {0}] \* other status, or fetch throws

fetchFileSize(res) ==
  IF res.kind \in {"partial", "ok"} THEN res.total ELSE 0

byDomain(mws, key) == SelectSeq(mws, LAMBDA m : getDomain(m.url) = key)

domains(mws) == {getDomain(mws[k].url) : k \in 1..Len(mws)}

IdleQueue == [st |-> "none", idx |-> 0, totalWritten |-> 0]

updateStatus(s, currentFiles) == [s EXCEPT !.currentFiles = currentFiles]

\* ---------------------------------------------------------- status server
\* Values of the STATUS_TOKEN environment variable ("" when it is not set).
StatusTokens == {"", "t1"}

\* Requests: the Authorization header (absent, the right token, another
\* token) and the request target.  The handler does not read the method.
Requests ==
  [authorization : {Undefined, "Bearer t1", "Bearer t2"},
   url : {"/status", "/"}]

\* No request handled yet.
NoResponse == [req |-> [authorization |-> Undefined, url |-> ""],
               code |-> 0, body |-> <<>>]

\* --------------------------------------------- throughput, at rest
\* status.speed = 0 / no sample: the fraction 0 bytes per 1 ms.
ZeroSpeed == [bytes |-> 0, ms |-> 1]

\* The Worker's clock and samples at process start.
SpeedOff ==
  /\ now = 0
  /\ speedSamples = <<>>
  /\ speed = ZeroSpeed
  /\ speedFrom = {}

\* ------------------------------------------------ credentials, at rest
NoRequest == [kind |-> "none", url |-> [hostname |-> <<>>, path |-> <<>>],
              Authorization |-> Undefined]

\* No token configured, nothing requested.
AuthOff ==
  /\ authEnv = [HF_TOKEN |-> "", CIVITAI_TOKEN |-> ""]
  /\ request = NoRequest

\* ------------------------------------------------ first Worker on the volume
RetryOff ==
  /\ run = 1
  /\ partial = {}

\* ------------------------------------------------ orchestrator, at rest
\* setup() is not running and the provider has no pod.
SetupOff ==
  /\ sp = [pc |-> "off"]
  /\ pods = <<>>
  /\ podWorker = <<>>
  /\ polls = <<>>

\* ------------------------------------------------------------------- Init
\* The Worker process after module initialisation and startStatusServer().
WorkerInit ==
  /\ env \in [MODELS : {[present |-> FALSE, value |-> <<>>]}]
             \cup [MODELS : {[present |-> TRUE, value |-> l] : l \in JobLists}]
  /\ fs \in [Dests -> InitialFiles]
  /\ \A d \in Dests :
       (\A k \in 1..Len(env.MODELS.value) : env.MODELS.value[k].dest # d)
          => fs[d] = NoFile
  /\ status = [phase |-> "preflight", currentFiles |-> {}, totalFiles |-> 0,
               overallDownloadedBytes |-> 0, overallTotalBytes |-> 0,
               results |-> <<>>, error |-> Undefined]
  /\ pc = "start"
  /\ i = 1
  /\ modelsWithSize = <<>>
  /\ activeFiles = {}
  /\ queue = [k \in DomainKeys |-> IdleQueue]
  /\ preflightLog = <<>>
  /\ errored = {}
  /\ nTerminated = 0

\* The Worker on its own: no status token, no client, no orchestrator.
Init ==
  /\ WorkerInit
  /\ STATUS_TOKEN = ""
  /\ response = NoResponse
  /\ SetupOff
  /\ SpeedOff
  /\ AuthOff
  /\ RetryOff

\* ------------------------------------------------------------ main(): start
\* (changed) the early return is missing: main goes on to the preflight loop
MainNoModelsNoReturn ==
  /\ pc = "start"
  /\ ~env.MODELS.present
  /\ status' = [status EXCEPT !.phase = "failed",
                              !.error = "MODELS environment variable is not set"]
  /\ pc' = "preflight"
  /\ UNCHANGED <<env, fs, i, modelsWithSize, activeFiles, queue,
                 preflightLog, errored, nTerminated>>
  /\ UNCHANGED <<serverVars, setupVars, auxVars>>

\* (changed) a missing MODELS is thrown out of main instead of reported
MainNoModelsThrows ==
  /\ pc = "start"
  /\ ~env.MODELS.present
  /\ pc' = "crashed"
  /\ UNCHANGED <<env, fs, status, i, modelsWithSize, activeFiles, queue,
                 preflightLog, errored, nTerminated>>
  /\ UNCHANGED <<serverVars, setupVars, auxVars>>

\* main, MODELS not set: phase failed with a top-level error; main returns,
\* the status server keeps the process alive.
MainNoModels ==
  /\ pc = "start"
  /\ ~env.MODELS.present
  /\ status' = [status EXCEPT !.phase = "failed",
                              !.error = "MODELS environment variable is not set"]
  /\ pc' = "returned"
  /\ UNCHANGED <<env, fs, i, modelsWithSize, activeFiles, queue,
                 preflightLog, errored, nTerminated>>
  /\ UNCHANGED <<serverVars, setupVars, auxVars>>

\* main: JSON.parse(modelsJson); status.totalFiles = models.length.
MainParseModels ==
  /\ pc = "start"
  /\ env.MODELS.present
  /\ status' = [status EXCEPT !.totalFiles = Len(env.MODELS.value)]
  /\ pc' = "preflight"
  /\ UNCHANGED <<env, fs, i, modelsWithSize, activeFiles, queue,
                 preflightLog, errored, nTerminated>>
  /\ UNCHANGED <<serverVars, setupVars, auxVars>>

\* (changed) a skipped entry is still counted and queued for download
PreflightQueuesSkipped ==
  /\ pc = "preflight"
  /\ i <= Len(env.MODELS.value)
  /\ \E res \in ProbeResponses :
       LET model == env.MODELS.value[i]
           size == fetchFileSize(res)
           decision == checkNeedsDownload(model, size, fs)
       IN /\ IF decision.skip
               THEN /\ status' = [status EXCEPT !.results =
                          Append(@, FileResult(model.dest, "skipped", decision.reason)),
                          !.overallTotalBytes = @ + size]
                    /\ modelsWithSize' = Append(modelsWithSize,
                          [url |-> model.url, dest |-> model.dest,
                           sha256 |-> model.sha256, size |-> size])
               ELSE /\ modelsWithSize' = Append(modelsWithSize,
                          [url |-> model.url, dest |-> model.dest,
                           sha256 |-> model.sha256, size |-> size])
                    /\ status' = [status EXCEPT !.overallTotalBytes = @ + size]
          /\ preflightLog' = Append(preflightLog,
                                    [size |-> size, decision |-> decision])
  /\ i' = i + 1
  /\ UNCHANGED <<env, fs, pc, activeFiles, queue, errored, nTerminated>>
  /\ UNCHANGED <<serverVars, setupVars, auxVars>>

\* (changed) a probe whose fetch throws is not caught
PreflightProbeThrows ==
  /\ pc = "preflight"
  /\ i <= Len(env.MODELS.value)
  /\ \E res \in ProbeResponses :
       LET model == env.MODELS.value[i]
           size == fetchFileSize(res)
           decision == checkNeedsDownload(model, size, fs)
       IN IF res.kind = "throw"
            THEN /\ pc' = "crashed"
                 /\ UNCHANGED <<status, modelsWithSize, preflightLog, i>>
          ELSE /\ IF decision.skip
                    THEN /\ status' = [status EXCEPT !.results =
                               Append(@, FileResult(model.dest, "skipped", decision.reason))]
                         /\ UNCHANGED modelsWithSize
                    ELSE /\ modelsWithSize' = Append(modelsWithSize,
                               [url |-> model.url, dest |-> model.dest,
                                sha256 |-> model.sha256, size |-> size])
                         /\ status' = [status EXCEPT !.overallTotalBytes = @ + size]
               /\ preflightLog' = Append(preflightLog,
                                         [size |-> size, decision |-> decision])
               /\ i' = i + 1
               /\ pc' = pc
  /\ UNCHANGED <<env, fs, activeFiles, queue, errored, nTerminated>>
  /\ UNCHANGED <<serverVars, setupVars, auxVars>>

\* One turn of the preflight loop: probe the size, decide, record.
Preflight ==
  /\ pc = "preflight"
  /\ i <= Len(env.MODELS.value)
  /\ \E res \in ProbeResponses :
       LET model == env.MODELS.value[i]
           size == fetchFileSize(res)
           decision == checkNeedsDownload(model, size, fs)
       IN /\ IF decision.skip
               THEN /\ status' = [status EXCEPT !.results =
                          Append(@, FileResult(model.dest, "skipped", decision.reason))]
                    /\ UNCHANGED modelsWithSize
               ELSE /\ modelsWithSize' = Append(modelsWithSize,
                          [url |-> model.url, dest |-> model.dest,
                           sha256 |-> model.sha256, size |-> size])
                    /\ status' = [status EXCEPT !.overallTotalBytes = @ + size]
          /\ preflightLog' = Append(preflightLog,
                                    [size |-> size, decision |-> decision])
  /\ i' = i + 1
  /\ UNCHANGED <<env, fs, pc, activeFiles, queue, errored, nTerminated>>
  /\ UNCHANGED <<serverVars, setupVars, auxVars>>

\* main: modelsWithSize.length === 0 -> phase completed, return.
MainAllSkipped ==
  /\ pc = "preflight"
  /\ i > Len(env.MODELS.value)
  /\ Len(modelsWithSize) = 0
  /\ status' = [status EXCEPT !.phase = "completed"]
  /\ pc' = "returned"
  /\ UNCHANGED <<env, fs, i, modelsWithSize, activeFiles, queue,
                 preflightLog, errored, nTerminated>>
  /\ UNCHANGED <<serverVars, setupVars, auxVars>>

\* (changed) the all-skipped early return is not taken into account
MainStartDownloadsUnguarded ==
  /\ pc = "preflight"
  /\ i > Len(env.MODELS.value)
  /\ LET keys == domains(modelsWithSize)
         firsts == {byDomain(modelsWithSize, k)[1].dest : k \in keys}
     IN /\ activeFiles' = firsts
        /\ status' = updateStatus([status EXCEPT !.phase = "downloading"], firsts)
        /\ queue' = [k \in DomainKeys |->
                       IF k \in keys
                         THEN [st |-> "fetch", idx |-> 1, totalWritten |-> 0]
                         ELSE queue[k]]
  /\ pc' = "downloading"
  /\ UNCHANGED <<env, fs, i, modelsWithSize, preflightLog, errored, nTerminated>>
  /\ UNCHANGED <<serverVars, setupVars, auxVars>>

\* (changed) the downloads start as soon as one entry needs one, before the
\* remaining entries are classified
MainStartDownloadsEarly ==
  /\ pc = "preflight"
  /\ Len(modelsWithSize) > 0
  /\ LET keys == domains(modelsWithSize)
         firsts == {byDomain(modelsWithSize, k)[1].dest : k \in keys}
     IN /\ activeFiles' = firsts
        /\ status' = updateStatus([status EXCEPT !.phase = "downloading"], firsts)
        /\ queue' = [k \in DomainKeys |->
                       IF k \in keys
                         THEN [st |-> "fetch", idx |-> 1, totalWritten |-> 0]
                         ELSE queue[k]]
  /\ pc' = "downloading"
  /\ UNCHANGED <<env, fs, i, modelsWithSize, preflightLog, errored, nTerminated>>
  /\ UNCHANGED <<serverVars, setupVars, auxVars>>

\* (changed) the host queues are awaited one after the other: only the
\* queue of the first host starts
MainStartDownloadsSequential ==
  /\ pc = "preflight"
  /\ i > Len(env.MODELS.value)
  /\ Len(modelsWithSize) > 0
  /\ LET keys == {getDomain(modelsWithSize[1].url)}
         firsts == {byDomain(modelsWithSize, k)[1].dest : k \in keys}
     IN /\ activeFiles' = firsts
        /\ status' = updateStatus([status EXCEPT !.phase = "downloading"], firsts)
        /\ queue' = [k \in DomainKeys |->
                       IF k \in keys
                         THEN [st |-> "fetch", idx |-> 1, totalWritten |-> 0]
                         ELSE queue[k]]
  /\ pc' = "downloading"
  /\ UNCHANGED <<env, fs, i, modelsWithSize, preflightLog, errored, nTerminated>>
  /\ UNCHANGED <<serverVars, setupVars, auxVars>>

\* main: phase downloading, group by domain and call downloadDomainQueue for
\* every group.  Each call runs synchronously up to the fetch of its first
\* entry: activeFiles.add, updateStatus, mkdirSync, fetch.
MainStartDownloads ==
  /\ pc = "preflight"
  /\ i > Len(env.MODELS.value)
  /\ Len(modelsWithSize) > 0
  /\ LET keys == domains(modelsWithSize)
         firsts == {byDomain(modelsWithSize, k)[1].dest : k \in keys}
     IN /\ activeFiles' = firsts
        /\ status' = updateStatus([status EXCEPT !.phase = "downloading"], firsts)
        /\ queue' = [k \in DomainKeys |->
                       IF k \in keys
                         THEN [st |-> "fetch", idx |-> 1, totalWritten |-> 0]
                         ELSE queue[k]]
  /\ pc' = "downloading"
  /\ UNCHANGED <<env, fs, i, modelsWithSize, preflightLog, errored, nTerminated>>
  /\ UNCHANGED <<serverVars, setupVars, auxVars>>

\* ------------------------------------------------- downloadDomainQueue
Current(key) == byDomain(modelsWithSize, key)[queue[key].idx]

\* (changed) a failed download is not pushed to status.results
CompleteDropsFailure(key, result) ==
  LET q == queue[key]
      ms == byDomain(modelsWithSize, key)
      m == ms[q.idx]
      results1 == IF result.status = "failed" THEN status.results
                  ELSE Append(status.results, FileResult(m.dest, result.status, result.reason))
      active1 == activeFiles \ {m.dest}
      more == q.idx < Len(ms)
      active2 == IF more THEN active1 \cup {ms[q.idx + 1].dest} ELSE active1
  IN /\ status' = updateStatus([status EXCEPT !.results = results1], active2)
     /\ activeFiles' = active2
     /\ queue' = [queue EXCEPT ![key] =
                    IF more THEN [st |-> "fetch", idx |-> q.idx + 1, totalWritten |-> 0]
                            ELSE [st |-> "done", idx |-> q.idx, totalWritten |-> 0]]
     /\ nTerminated' = nTerminated + 1
     /\ errored' = IF result.status = "failed" THEN errored \cup {m.dest} ELSE errored

\* (changed) the result is pushed and published while the destination is
\* still in the published active set; the set follows with the next entry
CompletePublishesEarly(key, result) ==
  LET q == queue[key]
      ms == byDomain(modelsWithSize, key)
      m == ms[q.idx]
      results1 == Append(status.results, FileResult(m.dest, result.status, result.reason))
      active1 == activeFiles \ {m.dest}
      more == q.idx < Len(ms)
      active2 == IF more THEN active1 \cup {ms[q.idx + 1].dest} ELSE active1
  IN /\ status' = updateStatus([status EXCEPT !.results = results1],
                               activeFiles \cup active2)
     /\ activeFiles' = active2
     /\ queue' = [queue EXCEPT ![key] =
                    IF more THEN [st |-> "fetch", idx |-> q.idx + 1, totalWritten |-> 0]
                            ELSE [st |-> "done", idx |-> q.idx, totalWritten |-> 0]]
     /\ nTerminated' = nTerminated + 1
     /\ errored' = IF result.status = "failed" THEN errored \cup {m.dest} ELSE errored

\* downloadModel returned `result` for the current entry of `key`: push the
\* File Result, drop the destination from activeFiles, publish, and go on
\* with the next entry of the queue up to its fetch (or finish the queue).
Complete(key, result) ==
  LET q == queue[key]
      ms == byDomain(modelsWithSize, key)
      m == ms[q.idx]
      results1 == Append(status.results, FileResult(m.dest, result.status, result.reason))
      active1 == activeFiles \ {m.dest}
      more == q.idx < Len(ms)
      active2 == IF more THEN active1 \cup {ms[q.idx + 1].dest} ELSE active1
  IN /\ status' = updateStatus([status EXCEPT !.results = results1], active2)
     /\ activeFiles' = active2
     /\ queue' = [queue EXCEPT ![key] =
                    IF more THEN [st |-> "fetch", idx |-> q.idx + 1, totalWritten |-> 0]
                            ELSE [st |-> "done", idx |-> q.idx, totalWritten |-> 0]]
     /\ nTerminated' = nTerminated + 1
     /\ errored' = IF result.status = "failed" THEN errored \cup {m.dest} ELSE errored

\* A rejection inside downloadModel is caught nowhere: the queue's promise
\* rejects, Promise.all rejects, main() rejects and the process ends.
Reject(key) ==
  /\ pc' = "crashed"
  /\ errored' = errored \cup {Current(key).dest}
  /\ UNCHANGED <<env, fs, status, i, modelsWithSize, activeFiles, queue,
                 preflightLog, nTerminated>>

\* ------------------------------------------------------- downloadModel
\* fetch() rejects: connection refused or dropped before the response head.
FetchRejects(key) ==
  /\ pc = "downloading"
  /\ queue[key].st = "fetch"
  /\ Reject(key)
  /\ UNCHANGED <<serverVars, setupVars, auxVars>>

\* (changed) after a non-success status the failure is recorded and the same
\* entry is requested again
FetchNotOkRetries(key) ==
  /\ pc = "downloading"
  /\ queue[key].st = "fetch"
  /\ status' = [status EXCEPT !.results =
        Append(@, FileResult(Current(key).dest, "failed", HttpFailureReason))]
  /\ UNCHANGED <<env, fs, pc, i, modelsWithSize, activeFiles, queue,
                 preflightLog, errored, nTerminated>>
  /\ UNCHANGED <<serverVars, setupVars, auxVars>>

\* !res.ok
FetchNotOk(key) ==
  /\ pc = "downloading"
  /\ queue[key].st = "fetch"
  /\ Complete(key, [status |-> "failed", reason |-> HttpFailureReason])
  /\ UNCHANGED <<env, fs, pc, i, modelsWithSize, preflightLog>>
  /\ UNCHANGED <<serverVars, setupVars, auxVars>>

\* (changed) the destination is opened for writing before the body check
FetchNoBodyTruncates(key) ==
  /\ pc = "downloading"
  /\ queue[key].st = "fetch"
  /\ fs' = [fs EXCEPT ![Current(key).dest] = File(0, HEmpty)]
  /\ Complete(key, [status |-> "failed", reason |-> "no response body"])
  /\ UNCHANGED <<env, pc, i, modelsWithSize, preflightLog>>
  /\ UNCHANGED <<serverVars, setupVars, auxVars>>

\* !res.body
FetchNoBody(key) ==
  /\ pc = "downloading"
  /\ queue[key].st = "fetch"
  /\ Complete(key, [status |-> "failed", reason |-> "no response body"])
  /\ UNCHANGED <<env, fs, pc, i, modelsWithSize, preflightLog>>
  /\ UNCHANGED <<serverVars, setupVars, auxVars>>

\* Response ok with a body: createWriteStream(destPath) truncates the file.
FetchOk(key) ==
  /\ pc = "downloading"
  /\ queue[key].st = "fetch"
  /\ fs' = [fs EXCEPT ![Current(key).dest] = File(0, HEmpty)]
  /\ queue' = [queue EXCEPT ![key] = [@ EXCEPT !.st = "stream", !.totalWritten = 0]]
  /\ UNCHANGED <<env, status, pc, i, modelsWithSize, activeFiles,
                 preflightLog, errored, nTerminated>>
  /\ UNCHANGED <<serverVars, setupVars, auxVars>>

Max(a, b) == IF a >= b THEN a ELSE b

\* Digests the file may have after one more chunk of the body is written:
\* any digest for an entry whose hash will be verified, one fixed digest for
\* an entry without a configured hash (nothing reads it in this run).
ChunkDigests(m) == IF m.sha256 # Undefined THEN Hashes ELSE {HOther}

\* reader.read() yields a chunk (one byte): write it, count it, onProgress.
ReadChunk(key) ==
  /\ pc = "downloading"
  /\ queue[key].st = "stream"
  /\ queue[key].totalWritten < MaxBytes
  /\ \E h \in ChunkDigests(Current(key)) :
       fs' = [fs EXCEPT ![Current(key).dest] =
                File(Max(@.size, queue[key].totalWritten + 1), h)]
  /\ queue' = [queue EXCEPT ![key] = [@ EXCEPT !.totalWritten = @ + 1]]
  /\ status' = updateStatus(
                 [status EXCEPT !.overallDownloadedBytes = @ + 1], activeFiles)
  /\ UNCHANGED <<env, pc, i, modelsWithSize, activeFiles,
                 preflightLog, errored, nTerminated>>
  /\ UNCHANGED <<serverVars, setupVars, auxVars>>

\* reader.read() rejects: the connection dropped while streaming.
ReadRejects(key) ==
  /\ pc = "downloading"
  /\ queue[key].st = "stream"
  /\ Reject(key)
  /\ UNCHANGED <<serverVars, setupVars, auxVars>>

\* (changed) an entry with a configured hash goes to the hash check without
\* the size check
ReadDoneHashFirst(key) ==
  /\ pc = "downloading"
  /\ queue[key].st = "stream"
  /\ LET m == Current(key)
         w == queue[key].totalWritten
     IN IF m.sha256 # Undefined
          THEN /\ queue' = [queue EXCEPT ![key] = [@ EXCEPT !.st = "hash"]]
               /\ UNCHANGED <<env, fs, status, pc, i, modelsWithSize, activeFiles,
                              preflightLog, errored, nTerminated>>
        ELSE IF m.size > 0 /\ w # m.size
          THEN /\ Complete(key, [status |-> "failed",
                                 reason |-> SizeMismatchReason(m.size, w)])
               /\ UNCHANGED <<env, fs, pc, i, modelsWithSize, preflightLog>>
        ELSE /\ Complete(key, [status |-> "success", reason |-> Undefined])
             /\ UNCHANGED <<env, fs, pc, i, modelsWithSize, preflightLog>>
  /\ UNCHANGED <<serverVars, setupVars, auxVars>>

\* (changed) the file is removed when the size check fails
ReadDoneUnlinksOnMismatch(key) ==
  /\ pc = "downloading"
  /\ queue[key].st = "stream"
  /\ LET m == Current(key)
         w == queue[key].totalWritten
     IN IF m.size > 0 /\ w # m.size
          THEN /\ Complete(key, [status |-> "failed",
                                 reason |-> SizeMismatchReason(m.size, w)])
               /\ fs' = [fs EXCEPT ![m.dest] = NoFile]
               /\ UNCHANGED <<env, pc, i, modelsWithSize, preflightLog>>
        ELSE IF m.sha256 # Undefined
          THEN /\ queue' = [queue EXCEPT ![key] = [@ EXCEPT !.st = "hash"]]
               /\ UNCHANGED <<env, fs, status, pc, i, modelsWithSize, activeFiles,
                              preflightLog, errored, nTerminated>>
        ELSE /\ Complete(key, [status |-> "success", reason |-> Undefined])
             /\ UNCHANGED <<env, fs, pc, i, modelsWithSize, preflightLog>>
  /\ UNCHANGED <<serverVars, setupVars, auxVars>>

\* reader.read() reports done: end the file stream, then the size check;
\* with a configured hash the hash of the file is computed next.
ReadDone(key) ==
  /\ pc = "downloading"
  /\ queue[key].st = "stream"
  /\ LET m == Current(key)
         w == queue[key].totalWritten
     IN IF m.size > 0 /\ w # m.size
          THEN /\ Complete(key, [status |-> "failed",
                                 reason |-> SizeMismatchReason(m.size, w)])
               /\ UNCHANGED <<env, fs, pc, i, modelsWithSize, preflightLog>>
        ELSE IF m.sha256 # Undefined
          THEN /\ queue' = [queue EXCEPT ![key] = [@ EXCEPT !.st = "hash"]]
               /\ UNCHANGED <<env, fs, status, pc, i, modelsWithSize, activeFiles,
                              preflightLog, errored, nTerminated>>
        ELSE /\ Complete(key, [status |-> "success", reason |-> Undefined])
             /\ UNCHANGED <<env, fs, pc, i, modelsWithSize, preflightLog>>
  /\ UNCHANGED <<serverVars, setupVars, auxVars>>

\* (changed) the computed hash is not compared with the configured one
HashVerifiedNoCompare(key) ==
  /\ pc = "downloading"
  /\ queue[key].st = "hash"
  /\ Complete(key, [status |-> "success", reason |-> Undefined])
  /\ UNCHANGED <<env, fs, pc, i, modelsWithSize, preflightLog>>
  /\ UNCHANGED <<serverVars, setupVars, auxVars>>

\* computeSha256(destPath) resolved: compare with the configured hash.
HashVerified(key) ==
  /\ pc = "downloading"
  /\ queue[key].st = "hash"
  /\ LET m == Current(key)
         hash == fs[m.dest].hash
     IN IF hash # m.sha256
          THEN Complete(key, [status |-> "failed", reason |-> "hash mismatch"])
          ELSE Complete(key, [status |-> "success", reason |-> Undefined])
  /\ UNCHANGED <<env, fs, pc, i, modelsWithSize, preflightLog>>
  /\ UNCHANGED <<serverVars, setupVars, auxVars>>

\* ---------------------------------------------------------- main(): end
AllQueuesDone ==
  \A k \in domains(modelsWithSize) : queue[k].st = "done"

\* (changed) main resumes as soon as one queue has finished
MainAllDoneAny ==
  /\ pc = "downloading"
  /\ \E k \in domains(modelsWithSize) : queue[k].st = "done"
  /\ LET finalStatus == serializeStatus(status)
     IN status' = [status EXCEPT !.phase =
                     IF finalStatus.failed > 0 THEN "failed" ELSE "completed"]
  /\ pc' = "returned"
  /\ UNCHANGED <<env, fs, i, modelsWithSize, activeFiles, queue,
                 preflightLog, errored, nTerminated>>
  /\ UNCHANGED <<serverVars, setupVars, auxVars>>

\* (changed) the terminal phase is set without awaiting the queues
MainAllDoneEarly ==
  /\ pc = "downloading"
  /\ status.phase = "downloading"
  /\ LET finalStatus == serializeStatus(status)
     IN status' = [status EXCEPT !.phase =
                     IF finalStatus.failed > 0 THEN "failed" ELSE "completed"]
  /\ UNCHANGED <<env, fs, pc, i, modelsWithSize, activeFiles, queue,
                 preflightLog, errored, nTerminated>>
  /\ UNCHANGED <<serverVars, setupVars, auxVars>>

\* await Promise.all(domainPromises) resolved: choose the terminal phase.
MainAllDone ==
  /\ pc = "downloading"
  /\ AllQueuesDone
  /\ LET finalStatus == serializeStatus(status)
     IN status' = [status EXCEPT !.phase =
                     IF finalStatus.failed > 0 THEN "failed" ELSE "completed"]
  /\ pc' = "returned"
  /\ UNCHANGED <<env, fs, i, modelsWithSize, activeFiles, queue,
                 preflightLog, errored, nTerminated>>
  /\ UNCHANGED <<serverVars, setupVars, auxVars>>

Next ==
  \/ MainNoModels
  \/ MainParseModels
  \/ Preflight
  \/ MainAllSkipped
  \/ MainStartDownloads
  \/ \E key \in DomainKeys : FetchRejects(key)
  \/ \E key \in DomainKeys : FetchNotOk(key)
  \/ \E key \in DomainKeys : FetchNoBody(key)
  \/ \E key \in DomainKeys : FetchOk(key)
  \/ \E key \in DomainKeys : ReadChunk(key)
  \/ \E key \in DomainKeys : ReadRejects(key)
  \/ \E key \in DomainKeys : ReadDone(key)
  \/ \E key \in DomainKeys : HashVerified(key)
  \/ MainAllDone

Spec == Init /\ [][Next]_vars

\* ------------------------------------------- Worker with status clients
\* (changed) the path is looked at before the token
StatusRequestPathFirst(req) ==
  /\ pc # "crashed"
  /\ response' =
       IF req.url # "/status"
         THEN [req |-> req, code |-> 404, body |-> <<>>]
       ELSE IF STATUS_TOKEN # "" /\ req.authorization # "Bearer " \o STATUS_TOKEN
         THEN [req |-> req, code |-> 401, body |-> <<>>]
       ELSE [req |-> req, code |-> 200, body |-> <<serializeStatus(status)>>]
  /\ UNCHANGED <<workerVars, STATUS_TOKEN, setupVars, auxVars>>

\* The request handler of startStatusServer: 401 with an empty body when a
\* token is configured and the Authorization header is not "Bearer <token>";
\* otherwise 200 with the serialized status for "/status", 404 for the rest.
\* The server answers as long as the process lives.
StatusRequest(req) ==
  /\ pc # "crashed"
  /\ response' =
       IF STATUS_TOKEN # "" /\ req.authorization # "Bearer " \o STATUS_TOKEN
         THEN [req |-> req, code |-> 401, body |-> <<>>]
       ELSE IF req.url = "/status"
         THEN [req |-> req, code |-> 200, body |-> <<serializeStatus(status)>>]
       ELSE [req |-> req, code |-> 404, body |-> <<>>]
  /\ UNCHANGED <<workerVars, STATUS_TOKEN, setupVars, auxVars>>

\* Largest job list of the runs in which clients query the Worker.
ServerMaxJobs == 1

ServerInit ==
  /\ WorkerInit
  /\ Len(env.MODELS.value) <= ServerMaxJobs
  /\ STATUS_TOKEN \in StatusTokens
  /\ response = NoResponse
  /\ SetupOff
  /\ SpeedOff
  /\ AuthOff
  /\ RetryOff

ServerNext ==
  \/ MainNoModels
  \/ MainParseModels
  \/ Preflight
  \/ MainAllSkipped
  \/ MainStartDownloads
  \/ \E key \in DomainKeys : FetchRejects(key)
  \/ \E key \in DomainKeys : FetchNotOk(key)
  \/ \E key \in DomainKeys : FetchNoBody(key)
  \/ \E key \in DomainKeys : FetchOk(key)
  \/ \E key \in DomainKeys : ReadChunk(key)
  \/ \E key \in DomainKeys : ReadRejects(key)
  \/ \E key \in DomainKeys : ReadDone(key)
  \/ \E key \in DomainKeys : HashVerified(key)
  \/ MainAllDone
  \/ \E req \in Requests : StatusRequest(req)

SpecServer == ServerInit /\ [][ServerNext]_vars

\* ========================================================= orchestrator
\* setup() of setup.ts from the entry of the attempt loop on, with the cloud
\* provider's pods and the Worker of the pod in use as its environment.
maxAttempts == 5
timeoutMs == 180000
waitIntervalMs == 5000
unresponsiveTimeoutMs == 180000
pollIntervalMs == 3000
fetchStatusTimeoutMs == 10000
retryTimeoutMs == 1800000
retryIntervalMs == 30000

\* Pods named config.cpu.podName: up to two found there by setup(), and the
\* one createPod makes in attempt a.
ExistingPodIds == {"p1", "p2"}
NewPodId(a) == "n" \o ToString(a)
PodIds == ExistingPodIds \cup {NewPodId(a) : a \in 1..maxAttempts}
Null == "null"

DesiredStatuses == {"RUNNING", "EXITED", "TERMINATED"}
NoPod == [exists |-> FALSE, desiredStatus |-> "TERMINATED", token |-> ""]
Pod(st, tok) == [exists |-> TRUE, desiredStatus |-> st, token |-> tok]

\* randomBytes(16).toString("hex"): a value not generated before (n values
\* were generated so far).
randomBytesRepeats(n) == "g1"

randomBytes(n) == "g" \o ToString(n + 1)

\* What the poller reads of a status document.
Doc(phase, success, failed, error) ==
  [phase |-> phase, success |-> success, failed |-> failed, error |-> error]

\* The documents a Worker can serve: counts only move once downloading, a
\* completed run has no failure, a failed run has a failure or the
\* top-level error.
WorkerDocs ==
  {Doc("preflight", 0, 0, Undefined)}
    \cup {Doc("downloading", sc, fl, Undefined) : sc \in {0, 1}, fl \in {0, 1}}
    \cup {Doc("completed", sc, 0, Undefined) : sc \in {0, 1}}
    \cup {Doc("failed", sc, 1, Undefined) : sc \in {0, 1}}
    \cup {Doc("failed", 0, 0, "MODELS environment variable is not set")}

\* One step of the Worker's main() as seen through its documents.
WorkerSteps(d) ==
  IF d.phase = "preflight"
    THEN {e \in WorkerDocs : e.success = 0 /\ e.failed = 0 /\ e.phase # "preflight"}
  ELSE IF d.phase = "downloading"
    THEN {e \in WorkerDocs :
            /\ e.success >= d.success /\ e.failed >= d.failed /\ e # d
            /\ e.error = Undefined
            /\ e.phase # "preflight"
            /\ e.phase # "downloading" =>
                  (e.success = d.success /\ e.failed = d.failed)}
  ELSE {}

NoStatus == Doc("none", 0, 0, Undefined)

\* Destinations of config.models, which createDownloaderPod passes to the
\* Worker as MODELS, and those of the MODELS a pod made by an earlier
\* invocation of setup() may have been given.
ConfigModels == {"d1"}
EarlierModels == {"d2"}

FreshWorker == [doc |-> Doc("preflight", 0, 0, Undefined), models |-> ConfigModels]

\* setup() at `for (let attempt = 1; ...)`: findPodByName is in flight.  The
\* provider has at most two pods of that name, in any state; the Worker of
\* the pod that may be reused is anywhere in its run.
SetupInit ==
  /\ WorkerInit
  /\ ~env.MODELS.present
  /\ STATUS_TOKEN = ""
  /\ response = NoResponse
  /\ sp = [pc |-> "findPod", attempt |-> 1, existingPod |-> Null,
           cpuPodId |-> Null, statusToken |-> "", elapsed |-> 0,
           generated |-> 0, finalStatus |-> NoStatus, error |-> Undefined]
  /\ pods \in {f \in [PodIds -> {NoPod} \cup {Pod(st, tok) : st \in DesiredStatuses,
                                                           tok \in {"", "t0"}}] :
                 /\ \A id \in PodIds \ ExistingPodIds : f[id] = NoPod
                 /\ f["p2"].exists => (f["p1"].exists /\ f["p2"] = Pod("RUNNING", "t0"))}
  /\ podWorker \in {[doc |-> d, models |-> m] :
                      d \in {Doc("preflight", 0, 0, Undefined),
                              Doc("completed", 1, 0, Undefined)},
                      m \in IF pods["p1"].exists
                              THEN {ConfigModels, EarlierModels}
                              ELSE {ConfigModels}}
  /\ polls = [last |-> "none", at |-> 0, clock |-> 0, polled |-> {},
              deleted |-> {}, oldTokens |-> {}, reused |-> {}]
  /\ SpeedOff
  /\ AuthOff
  /\ RetryOff

\* ---------------------------------------------------------- environment
\* The pod setup() waits for is started.
PodStarts ==
  /\ sp.pc = "waitRunning"
  /\ pods[sp.cpuPodId].desiredStatus = "EXITED"
  /\ pods' = [pods EXCEPT ![sp.cpuPodId].desiredStatus = "RUNNING"]
  /\ UNCHANGED <<workerVars, serverVars, auxVars, sp, podWorker, polls>>

\* The Worker of the pod in use moves on.  (A Worker that has died is one
\* whose polls all fail.)
WorkerProgress ==
  /\ sp.pc = "poll"
  /\ \E d \in WorkerSteps(podWorker.doc) : podWorker' = [podWorker EXCEPT !.doc = d]
  /\ UNCHANGED <<workerVars, serverVars, auxVars, sp, pods, polls>>

\* ---------------------------------------------------------------- setup
ExhaustedError == "Download failed after 5 attempts due to unresponsive pods"
NoTokenError == "Existing pod has no STATUS_TOKEN in env"
DownloadFailedError == "Download failed"
ProviderError == "provider call failed"

Throw(s, e) == [s EXCEPT !.pc = "threw", !.error = e]

\* client.deletePod(id) done: the pod is gone.
DeletePod(id) ==
  /\ pods' = [pods EXCEPT ![id] = NoPod]
  /\ polls' = [polls EXCEPT !.last = "none", !.at = 0, !.clock = 0,
                            !.deleted = @ \cup {id},
                            !.oldTokens = @ \cup {pods[id].token}]

\* The else branch of setup: a new token, and createPod's first POST.
CreateDownloaderPod(s) ==
  [s EXCEPT !.statusToken = randomBytes(s.generated),
            !.generated = @ + 1,
            !.pc = "createPod", !.elapsed = 0]

\* `continue`: attempt++ and the loop test; with the attempts used up the
\* loop ends without a finalStatus and setup throws.  Otherwise the next
\* iteration's findPodByName is issued.
Continue(s) ==
  IF s.attempt + 1 <= maxAttempts
    THEN [s EXCEPT !.attempt = @ + 1, !.pc = "findPod", !.existingPod = Null,
                   !.cpuPodId = Null, !.statusToken = "", !.elapsed = 0]
    ELSE Throw([s EXCEPT !.attempt = @ + 1], ExhaustedError)

\* (changed) an existing pod is reused in every attempt
FindPodReturnsReuseAlways ==
  /\ sp.pc = "findPod"
  /\ \E p \in IF \E id \in PodIds : pods[id].exists
                THEN {id \in PodIds : pods[id].exists} ELSE {Null} :
       LET live == p # Null /\ pods[p].desiredStatus # "TERMINATED"
           s == [sp EXCEPT !.existingPod = p]
       IN IF live
            THEN /\ sp' = IF pods[p].token = ""
                            THEN Throw(s, NoTokenError)
                            ELSE [s EXCEPT !.cpuPodId = p,
                                           !.statusToken = pods[p].token,
                                           !.pc = "waitRunning", !.elapsed = 0]
                 /\ polls' = IF pods[p].token = "" THEN polls
                             ELSE [polls EXCEPT !.reused = @ \cup {<<sp.attempt, p>>}]
          ELSE /\ sp' = CreateDownloaderPod(s)
               /\ polls' = polls
  /\ UNCHANGED <<workerVars, serverVars, auxVars, pods, podWorker>>

\* findPodByName resolved (with any pod of that name, or null).  A pod that
\* is not TERMINATED is deleted first when attempt > 1 and reused with its
\* own token when attempt = 1; otherwise a pod is created.
FindPodReturns ==
  /\ sp.pc = "findPod"
  /\ \E p \in IF \E id \in PodIds : pods[id].exists
                THEN {id \in PodIds : pods[id].exists} ELSE {Null} :
       LET live == p # Null /\ pods[p].desiredStatus # "TERMINATED"
           s == [sp EXCEPT !.existingPod = p]
       IN IF live /\ sp.attempt > 1
            THEN /\ sp' = [s EXCEPT !.pc = "deleteExisting"]
                 /\ polls' = polls
          ELSE IF live /\ sp.attempt = 1
            THEN /\ sp' = IF pods[p].token = ""
                            THEN Throw(s, NoTokenError)
                            ELSE [s EXCEPT !.cpuPodId = p,
                                           !.statusToken = pods[p].token,
                                           !.pc = "waitRunning", !.elapsed = 0]
                 /\ polls' = IF pods[p].token = "" THEN polls
                             ELSE [polls EXCEPT !.reused = @ \cup {<<sp.attempt, p>>}]
          ELSE /\ sp' = CreateDownloaderPod(s)
               /\ polls' = polls
  /\ UNCHANGED <<workerVars, serverVars, auxVars, pods, podWorker>>

\* deletePod(existingPod.id) resolved in attempt > 1: go on to create.
DeleteExistingReturns ==
  /\ sp.pc = "deleteExisting"
  /\ DeletePod(sp.existingPod)
  /\ sp' = CreateDownloaderPod(sp)
  /\ UNCHANGED <<workerVars, serverVars, auxVars, podWorker>>

\* RunpodClient.createPod: one POST /pods answered.  An id ends the loop;
\* 401/403, or any error once retryTimeoutMs has passed, throws; another
\* error is retried after retryIntervalMs.
CreatePodResponse ==
  /\ sp.pc = "createPod"
  /\ \E r \in {"created", "denied", "error"}, st \in {"RUNNING", "EXITED"} :
       IF r = "created"
         THEN /\ pods' = [pods EXCEPT ![NewPodId(sp.attempt)] =
                                       Pod(st, sp.statusToken)]
              /\ podWorker' = FreshWorker
              /\ sp' = [sp EXCEPT !.cpuPodId = NewPodId(sp.attempt),
                                  !.pc = "waitRunning", !.elapsed = 0]
       ELSE /\ sp' = IF r = "denied" \/ sp.elapsed >= retryTimeoutMs
                       THEN Throw(sp, ProviderError)
                       ELSE [sp EXCEPT !.elapsed = @ + retryIntervalMs]
            /\ UNCHANGED <<pods, podWorker>>
  /\ UNCHANGED <<workerVars, serverVars, auxVars, polls>>

\* waitForPodRunning: getPod resolved.  RUNNING returns true and
\* pollDownloadProgress sends its first fetchStatus; otherwise sleep, and
\* return false once timeoutMs has passed (setup then deletes the pod).
WaitGetPodReturns ==
  /\ sp.pc = "waitRunning"
  /\ IF pods[sp.cpuPodId].desiredStatus = "RUNNING"
       THEN /\ sp' = [sp EXCEPT !.pc = "poll", !.elapsed = 0]
            /\ polls' = [polls EXCEPT !.last = "none", !.at = 0, !.clock = 0]
     ELSE /\ sp' = IF sp.elapsed + waitIntervalMs < timeoutMs
                     THEN [sp EXCEPT !.elapsed = @ + waitIntervalMs]
                     ELSE [sp EXCEPT !.pc = "deleteNotStarted", !.elapsed = 0]
          /\ polls' = polls
  /\ UNCHANGED <<workerVars, serverVars, auxVars, pods, podWorker>>

\* (changed) a pod that failed to start is left behind
DeleteNotStartedSkipped ==
  /\ sp.pc = "deleteNotStarted"
  /\ sp' = Continue(sp)
  /\ UNCHANGED <<workerVars, serverVars, auxVars, pods, podWorker, polls>>

\* deletePod(cpuPodId) resolved after the pod failed to start: continue.
DeleteNotStartedReturns ==
  /\ sp.pc = "deleteNotStarted"
  /\ DeletePod(sp.cpuPodId)
  /\ sp' = Continue(sp)
  /\ UNCHANGED <<workerVars, serverVars, auxVars, podWorker>>

\* What fetchStatus can resolve to: null at once or after its 10 s timeout
\* (network error, non-2xx, timeout), or the Worker's document when the pod
\* runs, the Worker lives and accepts the token.
PollAnswers ==
  {[ok |-> FALSE, took |-> d, doc |-> NoStatus] : d \in {0, fetchStatusTimeoutMs}}
    \cup {[ok |-> TRUE, took |-> 0, doc |-> podWorker.doc] : x \in
            {y \in {sp.cpuPodId} :
               /\ pods[y].exists
               /\ pods[y].desiredStatus = "RUNNING"
               /\ pods[y].token = "" \/ pods[y].token = sp.statusToken}}

\* History of the polls of this attempt: the outcome of the last one, the
\* time from the last success (or the start of polling) to its end, and the
\* same time as of now.
Polled(ans) ==
  [polls EXCEPT !.last = IF ans.ok THEN "ok" ELSE "fail",
                !.at = IF ans.ok THEN 0 ELSE polls.clock + ans.took,
                !.clock = IF ans.ok THEN pollIntervalMs
                          ELSE polls.clock + ans.took + pollIntervalMs,
                !.polled = @ \cup {<<sp.cpuPodId, sp.statusToken>>}]

\* (changed) the first failed poll ends the attempt
PollResponseFailsFast ==
  /\ sp.pc = "poll"
  /\ \E ans \in PollAnswers :
       /\ sp' = IF ans.ok
                  THEN IF ans.doc.phase \in {"completed", "failed"}
                         THEN [sp EXCEPT !.pc = "deleteDone", !.elapsed = 0,
                                         !.finalStatus = ans.doc]
                         ELSE [sp EXCEPT !.elapsed = pollIntervalMs]
                ELSE [sp EXCEPT !.pc = "deleteUnresponsive", !.elapsed = 0]
       /\ polls' = Polled(ans)
  /\ UNCHANGED <<workerVars, serverVars, auxVars, pods, podWorker>>

\* (changed) the first status read is returned, whatever its phase
PollResponseReturnsAny ==
  /\ sp.pc = "poll"
  /\ \E ans \in PollAnswers :
       /\ sp' = IF ans.ok
                  THEN [sp EXCEPT !.pc = "deleteDone", !.elapsed = 0,
                                  !.finalStatus = ans.doc]
                ELSE IF sp.elapsed + ans.took >= unresponsiveTimeoutMs
                  THEN [sp EXCEPT !.pc = "deleteUnresponsive", !.elapsed = 0]
                  ELSE [sp EXCEPT !.elapsed = @ + ans.took + pollIntervalMs]
       /\ polls' = Polled(ans)
  /\ UNCHANGED <<workerVars, serverVars, auxVars, pods, podWorker>>

\* pollDownloadProgress: fetchStatus resolved.  A status resets
\* lastSuccessTime and, when its phase is completed or failed, is returned
\* (setup keeps it as finalStatus and deletes the pod); null returns
\* "unresponsive" once unresponsiveTimeoutMs has passed since
\* lastSuccessTime.  Otherwise sleep and poll again.  sp.elapsed is
\* Date.now() - lastSuccessTime when the pending fetchStatus was sent.
PollResponse ==
  /\ sp.pc = "poll"
  /\ \E ans \in PollAnswers :
       /\ sp' = IF ans.ok
                  THEN IF ans.doc.phase \in {"completed", "failed"}
                         THEN [sp EXCEPT !.pc = "deleteDone", !.elapsed = 0,
                                         !.finalStatus = ans.doc]
                         ELSE [sp EXCEPT !.elapsed = pollIntervalMs]
                ELSE IF sp.elapsed + ans.took >= unresponsiveTimeoutMs
                  THEN [sp EXCEPT !.pc = "deleteUnresponsive", !.elapsed = 0]
                  ELSE [sp EXCEPT !.elapsed = @ + ans.took + pollIntervalMs]
       /\ polls' = Polled(ans)
  /\ UNCHANGED <<workerVars, serverVars, auxVars, pods, podWorker>>

\* (changed) an unresponsive pod is left behind
DeleteUnresponsiveSkipped ==
  /\ sp.pc = "deleteUnresponsive"
  /\ sp' = Continue(sp)
  /\ UNCHANGED <<workerVars, serverVars, auxVars, pods, podWorker, polls>>

\* deletePod(cpuPodId) resolved after "unresponsive": continue.
DeleteUnresponsiveReturns ==
  /\ sp.pc = "deleteUnresponsive"
  /\ DeletePod(sp.cpuPodId)
  /\ sp' = Continue(sp)
  /\ UNCHANGED <<workerVars, serverVars, auxVars, podWorker>>

\* (changed) the pod of a failed run is kept and the run is tried again
DeleteDoneRetriesFailed ==
  /\ sp.pc = "deleteDone"
  /\ IF sp.finalStatus.phase = "failed"
       THEN /\ sp' = Continue([sp EXCEPT !.finalStatus = NoStatus])
            /\ UNCHANGED <<pods, polls>>
       ELSE /\ DeletePod(sp.cpuPodId)
            /\ sp' = [sp EXCEPT !.pc = "returned"]
  /\ UNCHANGED <<workerVars, serverVars, auxVars, podWorker>>

\* (changed) a failed final status does not throw
DeleteDoneReturnsAlways ==
  /\ sp.pc = "deleteDone"
  /\ DeletePod(sp.cpuPodId)
  /\ sp' = [sp EXCEPT !.pc = "returned"]
  /\ UNCHANGED <<workerVars, serverVars, auxVars, podWorker>>

\* deletePod(cpuPodId) resolved after a terminal status: break; a final
\* status with phase failed throws, any other returns ("Setup complete").
DeleteDoneReturns ==
  /\ sp.pc = "deleteDone"
  /\ DeletePod(sp.cpuPodId)
  /\ sp' = IF sp.finalStatus.phase = "failed"
             THEN Throw(sp, DownloadFailedError)
             ELSE [sp EXCEPT !.pc = "returned"]
  /\ UNCHANGED <<workerVars, serverVars, auxVars, podWorker>>

\* A provider call (listPods, getPod, deletePod, POST /pods) rejects or
\* answers with an error: the exception leaves setup().
ProviderCallThrows ==
  /\ sp.pc \in {"findPod", "deleteExisting", "createPod", "waitRunning",
                 "deleteNotStarted", "deleteUnresponsive", "deleteDone"}
  /\ sp' = Throw(sp, ProviderError)
  /\ UNCHANGED <<workerVars, serverVars, auxVars, pods, podWorker, polls>>

\* The steps of setup() itself.
SetupStep ==
  \/ FindPodReturns
  \/ DeleteExistingReturns
  \/ CreatePodResponse
  \/ WaitGetPodReturns
  \/ DeleteNotStartedReturns
  \/ PollResponse
  \/ DeleteUnresponsiveReturns
  \/ DeleteDoneReturns
  \/ ProviderCallThrows

SetupNext ==
  \/ FindPodReturns
  \/ DeleteExistingReturns
  \/ CreatePodResponse
  \/ WaitGetPodReturns
  \/ DeleteNotStartedReturns
  \/ PollResponse
  \/ DeleteUnresponsiveReturns
  \/ DeleteDoneReturns
  \/ ProviderCallThrows
  \/ PodStarts
  \/ WorkerProgress

SpecSetup == SetupInit /\ [][SetupNext]_vars

\* Every await of setup() settles: the event loop runs its continuation.
\* Nothing is assumed of the provider's pods or of the Worker.
SpecSetupFair == SetupInit /\ [][SetupNext]_vars /\ WF_vars(SetupStep)

\* ============================================================ throughput
\* recordBytes / getRecentSpeed / updateStatus of a Worker that downloads,
\* with the clock: chunks arrive, entries start and finish, time passes.
SPEED_WINDOW_MS == 60000

\* The step of the clock (the period of the progress log).
progressIntervalMs == 3000

\* The clock runs to MaxTicks steps; at most MaxSamples chunks are kept.
MaxTicks == 22
MaxSamples == 2

RECURSIVE DropOld(_, _)
\* while (speedSamples.length > 0 && speedSamples[0].time < cutoff) shift()
DropOld(samples, cutoff) ==
  IF samples # <<>> /\ Head(samples).time < cutoff
    THEN DropOld(Tail(samples), cutoff)
    ELSE samples

RECURSIVE SumBytes(_)
SumBytes(samples) ==
  IF samples = <<>> THEN 0 ELSE Head(samples).bytes + SumBytes(Tail(samples))

\* getRecentSpeed at time t: the samples kept, and totalBytes / elapsed.
getRecentSpeed(samples, t) ==
  LET kept == DropOld(samples, t - SPEED_WINDOW_MS)
      elapsed == IF kept = <<>> THEN 0 ELSE t - kept[1].time
  IN [samples |-> kept,
      speed |-> IF kept # <<>> /\ elapsed > 0
                  THEN [bytes |-> SumBytes(kept), ms |-> elapsed]
                  ELSE ZeroSpeed]

\* updateStatus: status.speed = getRecentSpeed().
UpdateSpeed(samples) ==
  LET r == getRecentSpeed(samples, now)
  IN /\ speedSamples' = r.samples
     /\ speed' = r.speed
     /\ speedFrom' = IF r.speed = ZeroSpeed THEN {}
                     ELSE {r.samples[k].time : k \in 1..Len(r.samples)}

\* Time passes and nothing runs: no chunk, no entry starts or finishes.
Tick ==
  /\ now < MaxTicks * progressIntervalMs
  /\ now' = now + progressIntervalMs
  /\ UNCHANGED <<workerVars, serverVars, setupVars, speedSamples, speed, speedFrom,
                 authVars, retryVars>>

\* The onProgress callback of downloadDomainQueue: recordBytes(bytes), then
\* updateStatus.
OnProgress ==
  /\ Len(speedSamples) < MaxSamples
  /\ UpdateSpeed(Append(speedSamples, [time |-> now, bytes |-> 1]))
  /\ UNCHANGED <<workerVars, serverVars, setupVars, now, authVars, retryVars>>

\* updateStatus when an entry starts or has finished.
EntryStartsOrEnds ==
  /\ UpdateSpeed(speedSamples)
  /\ UNCHANGED <<workerVars, serverVars, setupVars, now, authVars, retryVars>>

SpeedInit ==
  /\ WorkerInit
  /\ ~env.MODELS.present
  /\ STATUS_TOKEN = ""
  /\ response = NoResponse
  /\ SetupOff
  /\ SpeedOff
  /\ AuthOff
  /\ RetryOff

SpeedNext ==
  \/ Tick
  \/ OnProgress
  \/ EntryStartsOrEnds

SpecSpeed == SpeedInit /\ [][SpeedNext]_vars

\* =========================================================== credentials
\* getAuthHeaders works on the text of the URL; getDomain on its parsed
\* hostname.  Text is a sequence of characters here, so that
\* String.prototype.includes is the search for a subsequence.
HuggingFace == <<"h","u","g","g","i","n","g","f","a","c","e",".","c","o">>
Civitai == <<"c","i","v","i","t","a","i",".","c","o","m">>
OtherHost == <<"e","x","a","m","p","l","e",".","o","r","g">>
Scheme == <<"h","t","t","p","s",":","/","/">>
Slash == <<"/">>
File0 == <<"m",".","b","i","n">>

\* Hostnames and paths of the URLs of a job list.
AuthHosts ==
  {HuggingFace, Civitai, OtherHost, HuggingFace \o <<".">> \o OtherHost}
AuthPaths ==
  {Slash \o File0,
   Slash \o HuggingFace \o Slash \o File0,
   Slash \o Civitai \o Slash \o File0,
   Slash \o OtherHost \o Slash \o File0}
AuthUrls == [hostname : AuthHosts, path : AuthPaths]

\* The URL as written in the job list.
UrlText(u) == Scheme \o u.hostname \o u.path

\* text.includes(needle)
Includes(text, needle) ==
  \E k \in 1..(Len(text) - Len(needle) + 1) :
    SubSeq(text, k, k + Len(needle) - 1) = needle

Bearer(token) == "Bearer " \o token

\* getAuthHeaders(url): the Authorization header, if any.
getAuthHeaders(url, e) ==
  IF Includes(url, HuggingFace) /\ e.HF_TOKEN # ""
    THEN Bearer(e.HF_TOKEN)
  ELSE IF Includes(url, Civitai) /\ e.CIVITAI_TOKEN # ""
    THEN Bearer(e.CIVITAI_TOKEN)
  ELSE Undefined

\* fetchFileSize: the probe of an entry's URL is sent.
ProbeRequest(u) ==
  /\ request' = [kind |-> "probe", url |-> u,
                 Authorization |-> getAuthHeaders(UrlText(u), authEnv)]
  /\ UNCHANGED <<workerVars, serverVars, setupVars, speedVars, authEnv, retryVars>>

\* downloadModel: the download of an entry's URL is sent.
DownloadRequest(u) ==
  /\ request' = [kind |-> "download", url |-> u,
                 Authorization |-> getAuthHeaders(UrlText(u), authEnv)]
  /\ UNCHANGED <<workerVars, serverVars, setupVars, speedVars, authEnv, retryVars>>

AuthInit ==
  /\ WorkerInit
  /\ ~env.MODELS.present
  /\ STATUS_TOKEN = ""
  /\ response = NoResponse
  /\ SetupOff
  /\ SpeedOff
  /\ authEnv \in [HF_TOKEN : {"", "hf"}, CIVITAI_TOKEN : {"", "cv"}]
  /\ request = NoRequest
  /\ RetryOff

AuthNext ==
  \/ \E u \in AuthUrls : ProbeRequest(u)
  \/ \E u \in AuthUrls : DownloadRequest(u)

SpecAuth == AuthInit /\ [][AuthNext]_vars

\* ======================================================= Worker replaced
\* The Worker runs in a pod with the network volume mounted at /workspace.
\* setup() deletes the pod of an unresponsive Worker and creates another for
\* the next attempt, and a later setup run creates one again: a new Worker
\* process starts on the files the ended one left.
MaxRuns == 2
RetryMaxJobs == 1

\* Destinations whose file the Worker is writing and has not written to the
\* announced size.
WritingDests ==
  {byDomain(modelsWithSize, k)[queue[k].idx].dest :
     k \in {key \in DomainKeys : queue[key].st = "stream"
                                 /\ queue[key].totalWritten
                                      < byDomain(modelsWithSize, key)[queue[key].idx].size}}

\* Destinations this Worker has downloaded with success.
DownloadedDests ==
  {status.results[k].file :
     k \in {j \in 1..Len(status.results) : status.results[j].status = "success"}}

\* deletePod ends the Worker wherever it is; createDownloaderPod starts a
\* new one with the same MODELS on the same volume.
WorkerReplaced ==
  /\ run < MaxRuns
  /\ pc # "start"
  /\ run' = run + 1
  /\ partial' = (partial \ DownloadedDests) \cup WritingDests
  /\ status' = [phase |-> "preflight", currentFiles |-> {}, totalFiles |-> 0,
                overallDownloadedBytes |-> 0, overallTotalBytes |-> 0,
                results |-> <<>>, error |-> Undefined]
  /\ pc' = "start"
  /\ i' = 1
  /\ modelsWithSize' = <<>>
  /\ activeFiles' = {}
  /\ queue' = [k \in DomainKeys |-> IdleQueue]
  /\ preflightLog' = <<>>
  /\ errored' = {}
  /\ nTerminated' = 0
  /\ UNCHANGED <<env, fs>>
  /\ UNCHANGED <<serverVars, setupVars, speedVars, authVars>>

RetryInit ==
  /\ WorkerInit
  /\ Len(env.MODELS.value) <= RetryMaxJobs
  /\ STATUS_TOKEN = ""
  /\ response = NoResponse
  /\ SetupOff
  /\ SpeedOff
  /\ AuthOff
  /\ RetryOff

RetryNext ==
  \/ MainNoModels
  \/ MainParseModels
  \/ Preflight
  \/ MainAllSkipped
  \/ MainStartDownloads
  \/ \E key \in DomainKeys : FetchRejects(key)
  \/ \E key \in DomainKeys : FetchNotOk(key)
  \/ \E key \in DomainKeys : FetchNoBody(key)
  \/ \E key \in DomainKeys : FetchOk(key)
  \/ \E key \in DomainKeys : ReadChunk(key)
  \/ \E key \in DomainKeys : ReadRejects(key)
  \/ \E key \in DomainKeys : ReadDone(key)
  \/ \E key \in DomainKeys : HashVerified(key)
  \/ MainAllDone
  \/ WorkerReplaced

SpecRetry == RetryInit /\ [][RetryNext]_vars

\* ------------------------------------------------------------- type check
TypeOK ==
  /\ status.phase \in {"preflight", "downloading", "completed", "failed"}
  /\ status.currentFiles \subseteq Dests
  /\ pc \in {"start", "preflight", "downloading", "returned", "crashed"}
  /\ activeFiles \subseteq Dests

\* =================================================================== claims
models == env.MODELS.value

results == status.results

\* The job list has pairwise distinct destinations.
DistinctDests ==
  \A j, k \in 1..Len(models) : j # k => models[j].dest # models[k].dest

ResultFiles == {results[k].file : k \in 1..Len(results)}

HasResult(d, st) == \E k \in 1..Len(results) : results[k].file = d /\ results[k].status = st

\* The run has ended: main() returned or the process died.
RunEnded == pc \in {"returned", "crashed"}

\* Domain keys whose queue has an entry in flight.
ActiveKeys == {k \in DomainKeys : queue[k].st \in {"fetch", "stream", "hash"}}

\* C1 - Result completeness: when a run over a job list with pairwise
\* distinct destinations has ended, status.results holds exactly one File
\* Result per job entry and the result destinations are the input
\* destinations, whatever failures occurred (dropped connections included).
C1_ResultCompleteness ==
  (env.MODELS.present /\ DistinctDests /\ RunEnded)
    => /\ Len(results) = Len(models)
       /\ ResultFiles = {models[k].dest : k \in 1..Len(models)}

\* C2 - At most one per host: no two entries in flight have URLs with the
\* same hostname, no two destinations of status.currentFiles belong to
\* entries of the same hostname, and an entry of a host partition is in
\* flight only when the results of the partition's earlier entries are
\* recorded.
C2_AtMostOnePerHost ==
  /\ \A k1, k2 \in ActiveKeys :
       k1 # k2 => Current(k1).url.hostname # Current(k2).url.hostname
  /\ DistinctDests =>
       /\ \A j1, j2 \in 1..Len(models) :
            (/\ j1 # j2
             /\ models[j1].dest \in status.currentFiles
             /\ models[j2].dest \in status.currentFiles)
              => models[j1].url.hostname # models[j2].url.hostname
       /\ \A k \in ActiveKeys :
            \A j \in 1..Len(modelsWithSize) :
              (/\ modelsWithSize[j].url.hostname = Current(k).url.hostname
               /\ modelsWithSize[j].dest # Current(k).dest
               /\ \E j2 \in 1..Len(modelsWithSize) :
                    j < j2 /\ modelsWithSize[j2].dest = Current(k).dest)
                => modelsWithSize[j].dest \in ResultFiles

\* Witness of C2: the second entry of a host partition is streaming after
\* the first one's result was recorded.
C2_Witness ==
  /\ DistinctDests
  /\ \E k \in ActiveKeys :
       /\ queue[k].idx = 2
       /\ queue[k].st = "stream"
       /\ byDomain(modelsWithSize, k)[1].dest \in ResultFiles

\* C3 - Per-entry error isolation: every entry that met a transfer or
\* integrity error has a `failed` File Result, and a run that has ended has
\* processed every entry to a result and reached a terminal phase.
C3_ErrorIsolation ==
  (env.MODELS.present /\ DistinctDests)
    => /\ \A d \in errored : HasResult(d, "failed")
       /\ RunEnded =>
            /\ status.phase \in {"completed", "failed"}
            /\ \A k \in 1..Len(models) : models[k].dest \in ResultFiles

\* C4 - Skip decision table: checkNeedsDownload returns, for a destination
\* that is absent -> download; hash configured and equal -> skip 'hash
\* match' (whatever the sizes); hash configured and different -> download;
\* no hash, remote size > 0 and equal to the local size -> skip 'size
\* match'; no hash, remote size > 0 and different -> download; no hash and
\* remote size 0 -> skip 'file exists'.
DecisionTable(exists, hashConfigured, hashEqual, remotePositive, sizeEqual) ==
  CASE ~exists -> [skip |-> FALSE, reason |-> Undefined]
    [] exists /\ hashConfigured /\ hashEqual -> [skip |-> TRUE, reason |-> "hash match"]
    [] exists /\ hashConfigured /\ ~hashEqual -> [skip |-> FALSE, reason |-> Undefined]
    [] exists /\ ~hashConfigured /\ remotePositive /\ sizeEqual ->
         [skip |-> TRUE, reason |-> "size match"]
    [] exists /\ ~hashConfigured /\ remotePositive /\ ~sizeEqual ->
         [skip |-> FALSE, reason |-> Undefined]
    [] exists /\ ~hashConfigured /\ ~remotePositive ->
         [skip |-> TRUE, reason |-> "file exists"]

\* During preflight the storage root is as it was when each entry was
\* classified, so every recorded decision can be compared with the table.
C4_SkipDecisionTable ==
  pc = "preflight" =>
    \A k \in 1..Len(preflightLog) :
      LET m == models[k]
          f == fs[m.dest]
          size == preflightLog[k].size
      IN preflightLog[k].decision =
           DecisionTable(f.exists, m.sha256 # Undefined, f.hash = m.sha256,
                         size > 0, f.size = size)

\* Witness of C4: an entry was skipped with 'hash match' although the remote
\* size is known and differs from the local size.
C4_Witness ==
  /\ pc = "preflight"
  /\ \E k \in 1..Len(preflightLog) :
       /\ preflightLog[k].decision = [skip |-> TRUE, reason |-> "hash match"]
       /\ preflightLog[k].size > 0
       /\ fs[models[k].dest].size # preflightLog[k].size

\* The step completes the download of the current entry of `key`.
StepCompletes(key) ==
  /\ queue[key].st \in {"fetch", "stream", "hash"}
  /\ queue'[key] # queue[key]
  /\ Len(status'.results) = Len(status.results) + 1

LastResult(s) == s.results[Len(s.results)]

\* C5 - Integrity enforcement: when the hash of the written file is compared
\* (the stream completed and passed the size check) and differs from the
\* configured hash, the entry's result is `failed` with reason 'hash
\* mismatch' and no result of that destination records success; an entry
\* with a configured hash gets `success` only from a matching hash.
C5_IntegrityEnforcement ==
  [][\A key \in DomainKeys :
       /\ (queue[key].st = "hash" /\ queue'[key] # queue[key]
             /\ fs[Current(key).dest].hash # Current(key).sha256)
            => /\ Len(status'.results) = Len(status.results) + 1
               /\ LastResult(status') =
                    [file |-> Current(key).dest, status |-> "failed",
                     reason |-> "hash mismatch"]
               /\ DistinctDests =>
                    \A k \in 1..Len(status'.results) :
                      status'.results[k].file = Current(key).dest
                        => status'.results[k].status # "success"
       /\ (StepCompletes(key) /\ Current(key).sha256 # Undefined
             /\ LastResult(status').status = "success")
            => /\ queue[key].st = "hash"
               /\ fs[Current(key).dest].hash = Current(key).sha256
    ]_vars

\* Witness of C5: a result records 'hash mismatch' for an entry whose byte
\* count passed the size check.
C5_Witness ==
  \E k \in 1..Len(results) :
    /\ results[k] = [file |-> results[k].file, status |-> "failed",
                     reason |-> "hash mismatch"]
    /\ \E j \in 1..Len(modelsWithSize) :
         /\ modelsWithSize[j].dest = results[k].file
         /\ modelsWithSize[j].size > 0
         /\ fs[results[k].file].size = modelsWithSize[j].size

\* C6 - Size enforcement: when the body of a successful response ends with W
\* bytes written and the probed size is S, the entry fails with reason
\* 'size mismatch: expected S, got W' exactly when S is nonzero and W
\* differs from S (before any hash check); otherwise the step leads to the
\* hash check or to `success` (S=1: 1 byte -> success without a hash,
\* 0 bytes -> failed 'expected 1, got 0').
C6_SizeEnforcement ==
  [][\A key \in DomainKeys :
       (queue[key].st = "stream" /\ queue'[key].st # "stream") =>
         LET m == Current(key)
             S == m.size
             W == queue[key].totalWritten
         IN IF S # 0 /\ W # S
              THEN /\ Len(status'.results) = Len(status.results) + 1
                   /\ LastResult(status').file = m.dest
                   /\ LastResult(status').status = "failed"
                   /\ LastResult(status').reason =
                        "size mismatch: expected " \o ToString(S)
                          \o ", got " \o ToString(W)
                   /\ (S = 1 /\ W = 0) =>
                        LastResult(status').reason = "size mismatch: expected 1, got 0"
              ELSE IF m.sha256 # Undefined
                THEN /\ queue'[key].st = "hash"
                     /\ status'.results = status.results
                ELSE /\ Len(status'.results) = Len(status.results) + 1
                     /\ LastResult(status') =
                          [file |-> m.dest, status |-> "success", reason |-> Undefined]
    ]_vars

\* Witness of C6: a body shorter than the probed size was recorded as a size
\* mismatch.
C6_Witness ==
  \E k \in 1..Len(results) :
    /\ results[k].status = "failed"
    /\ results[k].reason = "size mismatch: expected 1, got 0"

Phase == status.phase

\* C7 - Phase state machine: the phase starts as `preflight`; the only
\* changes are preflight -> downloading, preflight -> completed, preflight
\* -> failed (only as the fatal startup error, with the error message set),
\* downloading -> completed and downloading -> failed; `completed` and
\* `failed` never change again.
C7_PhaseStateMachine ==
  /\ Phase = "preflight"
  /\ [][/\ status'.phase # status.phase =>
            /\ <<status.phase, status'.phase>> \in
                 {<<"preflight", "downloading">>, <<"preflight", "completed">>,
                  <<"preflight", "failed">>, <<"downloading", "completed">>,
                  <<"downloading", "failed">>}
            /\ (status.phase = "preflight" /\ status'.phase = "failed")
                 => (~env.MODELS.present /\ status'.error # Undefined)
        /\ status.phase \in {"completed", "failed"} => status'.phase = status.phase
      ]_vars

\* Witness of C7: a run went through preflight and downloading and ended
\* in a terminal phase.
C7_Witness ==
  /\ Phase \in {"completed", "failed"}
  /\ pc = "returned"
  /\ nTerminated > 0

\* C8 - Terminal phase choice: the phase leaves `downloading` only when
\* every host-partition queue has finished and no destination is active,
\* and the new phase is `failed` if and only if some File Result is
\* `failed`, `completed` otherwise.
C8_TerminalPhaseChoice ==
  [][(status.phase = "downloading" /\ status'.phase # "downloading") =>
       /\ \A k \in DomainKeys : queue[k].st \in {"none", "done"}
       /\ nTerminated = Len(modelsWithSize)
       /\ activeFiles = {} /\ status.currentFiles = {}
       /\ (status'.phase = "failed") <=>
            (\E k \in 1..Len(status'.results) : status'.results[k].status = "failed")
       /\ (status'.phase = "completed") <=>
            (\A k \in 1..Len(status'.results) : status'.results[k].status # "failed")
    ]_vars

\* Witness of C8: a run with one successful and one failed download ended
\* in phase `failed`.
C8_Witness ==
  /\ Phase = "failed"
  /\ pc = "returned"
  /\ \E j, k \in 1..Len(results) :
       results[j].status = "success" /\ results[k].status = "failed"

AllClassified == pc = "preflight" /\ i > Len(models)

AllSkipped == \A k \in 1..Len(preflightLog) : preflightLog[k].decision.skip

\* C9 - Downloading guard: the phase is `downloading` only if some entry
\* was classified as requiring download; when every entry was skipped (the
\* empty job list included) the step after preflight sets `completed`.
C9_DownloadingGuard ==
  [][/\ status'.phase = "downloading" =>
          \E k \in 1..Len(preflightLog') : ~preflightLog'[k].decision.skip
     /\ (AllClassified /\ AllSkipped) => status'.phase = "completed"
    ]_vars

\* Witness of C9: a non-empty job list whose entries were all skipped ended
\* in `completed`.
C9_Witness ==
  /\ env.MODELS.present
  /\ Len(models) > 0
  /\ Len(preflightLog) = Len(models)
  /\ AllSkipped
  /\ Phase = "completed"
  /\ pc = "returned"

NumSkipped(log) == Cardinality({k \in 1..Len(log) : log[k].decision.skip})

\* C10 - File Result invariant: the number of File Results equals the number
\* of entries classified as skipped plus the number of downloads that
\* returned a result, never exceeds totalFiles, and with distinct
\* destinations no destination has two results; a result is appended one at
\* a time, in the step that classifies an entry as skipped or completes a
\* download.
C10_FileResultInvariant ==
  [][/\ Len(status'.results) = NumSkipped(preflightLog') + nTerminated'
     /\ Len(status'.results) <= status'.totalFiles
     /\ DistinctDests =>
          \A j, k \in 1..Len(status'.results) :
            j # k => status'.results[j].file # status'.results[k].file
     /\ status'.results # status.results =>
          /\ status'.results = Append(status.results, LastResult(status'))
          /\ \/ /\ NumSkipped(preflightLog') = NumSkipped(preflightLog) + 1
                /\ LastResult(status') =
                     [file |-> models[i].dest, status |-> "skipped",
                      reason |-> preflightLog'[i].decision.reason]
             \/ \E key \in DomainKeys :
                  /\ StepCompletes(key)
                  /\ LastResult(status').file = Current(key).dest
                  /\ LastResult(status').status \in {"success", "failed"}
    ]_vars

\* Witness of C10: one entry was skipped, another was downloaded, and both
\* results are recorded.
C10_Witness ==
  /\ DistinctDests
  /\ NumSkipped(preflightLog) = 1
  /\ nTerminated = 1
  /\ Len(results) = 2

\* ---------------------------------------------------------------- C18
NoModelsError == "MODELS environment variable is not set"

\* The request carries the configured token, or no token is configured.
TokenOk(req) ==
  STATUS_TOKEN = "" \/ req.authorization = "Bearer " \o STATUS_TOKEN

\* C18. Worker-fatal startup error: when MODELS is absent, once main has
\* looked at it the phase is `failed` with the top-level error message, no
\* entry is processed (results empty, totalFiles 0, no probe, nothing queued,
\* no file touched), the process has not crashed, and a request for /status
\* with an acceptable token is answered 200 with exactly that status.
C18_WorkerFatalStartup ==
  [][(~env.MODELS.present /\ pc' # "start") =>
       /\ pc' = "returned"
       /\ status'.phase = "failed"
       /\ status'.error = NoModelsError
       /\ status'.results = <<>>
       /\ status'.totalFiles = 0
       /\ status'.overallTotalBytes = 0
       /\ status'.overallDownloadedBytes = 0
       /\ preflightLog' = <<>>
       /\ modelsWithSize' = <<>>
       /\ \A k \in DomainKeys : queue'[k] = IdleQueue
       /\ fs' = fs
       /\ (pc = "returned" =>
             \A req \in Requests :
               (TokenOk(req) /\ req.url = "/status") => ENABLED StatusRequest(req))
       /\ (response' # response /\ TokenOk(response'.req)
             /\ response'.req.url = "/status") =>
               /\ response'.code = 200
               /\ response'.body = <<serializeStatus(status')>>
               /\ response'.body[1].phase = "failed"
               /\ response'.body[1].error = NoModelsError]_vars

\* MODELS absent, main returned, and a client has been served the status.
C18_Witness ==
  /\ ~env.MODELS.present
  /\ pc = "returned"
  /\ response.code = 200
  /\ response.body[1].phase = "failed"

\* ---------------------------------------------------------------- C19
\* C19. Status endpoint responses: every handled request is answered 401
\* with an empty body when a token is configured and the request does not
\* carry it (whatever the path); otherwise 200 with the serialized status of
\* that moment when the target is /status, and 404 with an empty body for
\* any other target.
C19_StatusEndpoint ==
  [][response' # response =>
       LET r == response'
       IN /\ (TokenOk(r.req) /\ r.req.url = "/status") =>
                 (r.code = 200 /\ r.body = <<serializeStatus(status)>>)
          /\ ~TokenOk(r.req) => (r.code = 401 /\ r.body = <<>>)
          /\ (TokenOk(r.req) /\ r.req.url # "/status") =>
                 (r.code = 404 /\ r.body = <<>>)]_vars

\* A token is configured and a client carrying it got the status document
\* of a run that is downloading.
C19_Witness ==
  /\ STATUS_TOKEN # ""
  /\ response.code = 200
  /\ response.body[1].phase = "downloading"

\* ---------------------------------------------------------------- C20
RECURSIVE TotalSize(_)
TotalSize(mws) == IF mws = <<>> THEN 0 ELSE Head(mws).size + TotalSize(Tail(mws))

\* Destinations of the entries handed to downloadModel sooner or later.
DownloadDests == {modelsWithSize[k].dest : k \in 1..Len(modelsWithSize)}

\* Destinations classified as skipped and scheduled by no other entry.
SkippedDests ==
  {models[k].dest : k \in {j \in 1..Len(preflightLog) : preflightLog[j].decision.skip}}
    \ DownloadDests

\* C20. No redundant downloads: the preflight step that classifies an entry
\* as skipped queues nothing and leaves overallTotalBytes, the downloaded
\* bytes and the files alone; overallTotalBytes is always the sum of the
\* sizes of the queued entries; and in every later step the destination of
\* a skipped entry (unless another entry with the same destination is
\* downloaded) is in no queue, not active, and its file does not change,
\* while bytes are only ever counted for a queued entry being streamed.
C20_NoRedundantDownloads ==
  [][/\ (Len(preflightLog') > Len(preflightLog)
          /\ preflightLog'[Len(preflightLog')].decision.skip) =>
            /\ modelsWithSize' = modelsWithSize
            /\ status'.overallTotalBytes = status.overallTotalBytes
            /\ status'.overallDownloadedBytes = status.overallDownloadedBytes
            /\ fs' = fs
            /\ LastResult(status').file = models[Len(preflightLog')].dest
            /\ LastResult(status').status = "skipped"
     /\ status'.overallTotalBytes = TotalSize(modelsWithSize')
     /\ \A d \in SkippedDests' :
          /\ fs'[d] = fs[d]
          /\ d \notin activeFiles'
          /\ d \notin status'.currentFiles
          /\ \A key \in ActiveKeys' : Current(key)'.dest # d
     /\ status'.overallDownloadedBytes # status.overallDownloadedBytes =>
          \E key \in ActiveKeys :
            /\ queue[key].st = "stream"
            /\ Current(key).dest \in DownloadDests
            /\ queue'[key].totalWritten = queue[key].totalWritten + 1]_vars

\* One entry was skipped, another one was downloaded to a different
\* destination, and the run has ended.
C20_Witness ==
  /\ pc = "returned"
  /\ SkippedDests # {}
  /\ status.overallDownloadedBytes > 0
  /\ HasResult(DestOf(2), "success")

\* ================================================= claims on setup()
SetupEnded == sp.pc \in {"returned", "threw"}

\* fetchStatus has just resolved.
PollStep == sp.pc = "poll" /\ (sp' # sp \/ polls' # polls)

\* ---------------------------------------------------------------- C11
\* C11. Poll-failure tolerance: a failed poll that ends less than the
\* unresponsive threshold after the last successful poll (or after polling
\* started) leaves pollDownloadProgress polling in the same attempt;
\* "unresponsive" is returned only at a failed poll that ends at or past the
\* threshold; a successful poll restarts the clock, so that the clock the
\* code keeps is the time since the last success.
C11_PollFailureTolerance ==
  [][PollStep =>
       /\ (polls'.last = "fail" /\ polls'.at < unresponsiveTimeoutMs) =>
             (sp'.pc = "poll" /\ sp'.attempt = sp.attempt)
       /\ sp'.pc = "deleteUnresponsive" =>
             (polls'.last = "fail" /\ polls'.at >= unresponsiveTimeoutMs)
       /\ polls'.last = "ok" => sp'.pc \in {"poll", "deleteDone"}
       /\ (polls'.last = "ok" /\ sp'.pc = "poll") => sp'.elapsed = pollIntervalMs
       /\ sp'.pc = "poll" => sp'.elapsed = polls'.clock]_vars

\* A poll failed 170 s or more after the last success, and polling goes on.
C11_Witness ==
  /\ sp.pc = "poll"
  /\ polls.last = "fail"
  /\ polls.at >= unresponsiveTimeoutMs - fetchStatusTimeoutMs
  /\ polls.at < unresponsiveTimeoutMs

\* ---------------------------------------------------------------- C12
\* C12. Bounded retry: setup is never inside an attempt numbered above
\* maxAttempts; the attempt number only grows by one, only after the pod
\* failed to start or was unresponsive, and only once that attempt's pod is
\* deleted; when the last attempt ends that way setup throws the
\* operation-level error and has no final status.
C12_BoundedRetry ==
  [][/\ ~SetupEnded' => sp'.attempt \in 1..maxAttempts
     /\ sp'.attempt # sp.attempt =>
          /\ sp'.attempt = sp.attempt + 1
          /\ sp.pc \in {"deleteNotStarted", "deleteUnresponsive"}
          /\ ~pods'[sp.cpuPodId].exists
          /\ sp.cpuPodId \in polls'.deleted
          /\ sp'.finalStatus = NoStatus
     /\ (sp.pc \in {"deleteNotStarted", "deleteUnresponsive"} /\ sp'.pc = "findPod") =>
          (sp'.attempt = sp.attempt + 1 /\ ~pods'[sp.cpuPodId].exists)
     /\ sp'.attempt > maxAttempts =>
          /\ sp'.pc = "threw"
          /\ sp'.error = ExhaustedError
          /\ sp'.finalStatus = NoStatus
     /\ sp'.error = ExhaustedError => sp'.attempt = maxAttempts + 1]_vars

\* All five attempts were given up and setup threw.
C12_Witness ==
  /\ sp.pc = "threw"
  /\ sp.error = ExhaustedError
  /\ \A a \in 1..maxAttempts : NewPodId(a) \in polls.deleted

\* ---------------------------------------------------------------- C13
\* C13. Termination: every run of setup() ends (returns or throws).
C13_Termination == <>SetupEnded

\* ---------------------------------------------------------------- C14
\* C14. Teardown on terminal status: the poll that reads phase completed or
\* failed makes that document the final status and sends the deletion of
\* this attempt's pod; from then on the final status and the attempt number
\* never change, and when the deletion has gone through the pod is gone
\* and setup has ended, whichever of the two phases it was.
C14_TeardownOnTerminal ==
  [][/\ (PollStep /\ polls'.last = "ok" /\ sp' # sp
          /\ podWorker.doc.phase \in {"completed", "failed"}) =>
            /\ sp'.pc = "deleteDone"
            /\ sp'.finalStatus = podWorker.doc
            /\ sp'.attempt = sp.attempt
            /\ sp'.cpuPodId = sp.cpuPodId
     /\ sp.finalStatus # NoStatus =>
            /\ sp'.finalStatus = sp.finalStatus
            /\ sp'.attempt = sp.attempt
            /\ sp'.pc \in {"deleteDone", "returned", "threw"}
     /\ (sp.pc = "deleteDone" /\ sp' # sp /\ sp'.error # ProviderError) =>
            /\ SetupEnded'
            /\ ~pods'[sp.cpuPodId].exists
            /\ sp.cpuPodId \in polls'.deleted]_vars

\* The Worker reported `failed`; its pod was deleted and setup has ended.
C14_Witness ==
  /\ SetupEnded
  /\ sp.finalStatus.phase = "failed"
  /\ sp.cpuPodId \in polls.deleted

\* ---------------------------------------------------------------- C15
\* C15. Failure surfacing: setup has returned normally only with a final
\* status of phase completed; with a final status of phase failed it ends
\* by throwing, whatever the number of successful entries.
C15_FailureSurfacing ==
  /\ sp.pc = "returned" => sp.finalStatus.phase = "completed"
  /\ (SetupEnded /\ sp.finalStatus.phase = "failed") => sp.pc = "threw"
  /\ sp.error = DownloadFailedError => sp.finalStatus.phase = "failed"

\* setup threw for a run in which one entry succeeded and one failed.
C15_Witness ==
  /\ sp.pc = "threw"
  /\ sp.error = DownloadFailedError
  /\ sp.finalStatus.success > 0
  /\ sp.finalStatus.failed > 0

\* ---------------------------------------------------------------- C16
\* C16. Fresh token per host: after an attempt was given up the next
\* attempt goes through createPod; the token made for a new pod is none
\* made before, none of a deleted pod and none of a pod that exists; the
\* new pod carries it; and every poll is sent to the pod of the attempt
\* with that pod's own token, never with the token of a deleted pod.
C16_FreshToken ==
  [][/\ (sp'.pc = "createPod" /\ sp.pc # "createPod") =>
          /\ sp'.statusToken # sp.statusToken
          /\ sp'.statusToken \notin polls.oldTokens
          /\ \A id \in PodIds : pods[id].exists => pods[id].token # sp'.statusToken
          /\ \A pr \in polls.polled : pr[2] # sp'.statusToken
     /\ (sp'.pc = "waitRunning" /\ sp.pc # "waitRunning" /\ sp.attempt > 1) =>
          /\ sp.pc = "createPod"
          /\ sp'.cpuPodId = NewPodId(sp.attempt)
          /\ ~pods[sp'.cpuPodId].exists
     /\ \A id \in PodIds : (pods'[id].exists /\ ~pods[id].exists) =>
          /\ pods'[id].token = sp.statusToken
          /\ sp'.cpuPodId = id
          /\ sp.statusToken \notin polls.oldTokens
     /\ PollStep =>
          /\ sp.statusToken = pods[sp.cpuPodId].token
          /\ sp.cpuPodId \notin ExistingPodIds => sp.statusToken \notin polls.oldTokens
          /\ polls'.polled = polls.polled \cup {<<sp.cpuPodId, sp.statusToken>>}]_vars

\* The first attempt's new pod was polled and deleted, and the second
\* attempt's pod answers polls sent with the second token.
C16_Witness ==
  /\ sp.attempt = 2
  /\ sp.pc = "poll"
  /\ polls.last = "ok"
  /\ <<NewPodId(1), randomBytes(0)>> \in polls.polled
  /\ NewPodId(1) \in polls.deleted
  /\ <<NewPodId(2), randomBytes(1)>> \in polls.polled

\* ---------------------------------------------------------------- C17
\* findPodByName has just resolved.
FindStep == sp.pc = "findPod" /\ sp' # sp /\ sp'.error # ProviderError

\* C17 as stated: a pod is reused only in the first attempt and only when
\* it is running.
C17_ReuseOnlyRunning ==
  [][polls'.reused # polls.reused =>
       /\ sp.attempt = 1
       /\ pods[sp'.cpuPodId].desiredStatus = "RUNNING"]_vars

\* C17. Host reuse policy: with no pod of that name one is created; a pod
\* found is reused, with its own token, exactly when it is not TERMINATED
\* (running or not) and the attempt is the first one; found on a later
\* attempt and not TERMINATED it is deleted and a new pod is created; a
\* TERMINATED pod is left alone and a new pod is created; no pod is reused
\* on attempt 2 or later.
C17_HostReusePolicy ==
  [][/\ FindStep =>
          LET p == sp'.existingPod
              live == p # Null /\ pods[p].desiredStatus # "TERMINATED"
          IN /\ (\A id \in PodIds : ~pods[id].exists) <=> (p = Null)
             /\ p # Null => pods[p].exists
             /\ ~live => (sp'.pc = "createPod" /\ pods' = pods)
             /\ (live /\ sp.attempt = 1) =>
                   IF pods[p].token = ""
                     THEN sp'.pc = "threw" /\ sp'.error = NoTokenError
                     ELSE /\ sp'.pc = "waitRunning"
                          /\ sp'.cpuPodId = p
                          /\ sp'.statusToken = pods[p].token
                          /\ polls'.reused = polls.reused \cup {<<1, p>>}
             /\ (live /\ sp.attempt > 1) => sp'.pc = "deleteExisting"
     /\ (sp.pc = "deleteExisting" /\ sp' # sp /\ sp'.error # ProviderError) =>
          /\ ~pods'[sp.existingPod].exists
          /\ sp'.pc = "createPod"
     /\ polls'.reused # polls.reused => FindStep
     /\ \A r \in polls'.reused : r[1] = 1 /\ r[2] \in ExistingPodIds]_vars

\* In the first attempt setup waits for a reused pod that is not running.
C17_Witness ==
  /\ sp.attempt = 1
  /\ sp.pc = "waitRunning"
  /\ <<1, sp.cpuPodId>> \in polls.reused
  /\ pods[sp.cpuPodId].desiredStatus = "EXITED"
  /\ sp.elapsed > 0

\* ================================================ claims on the Worker, II
\* ---------------------------------------------------------------- C21
\* The reasons of a failure met before any byte was written.
NoStreamReasons == {HttpFailureReason, "no response body"}

\* C21. Partial file retention: the step that records a size mismatch or a
\* hash mismatch leaves every file as it is, the destination file exists
\* and (destinations being distinct) holds exactly the bytes written; and
\* from then on the file of such a failed entry is not changed in the run.
C21_PartialFileRetention ==
  [][/\ \A key \in DomainKeys :
          (/\ StepCompletes(key)
           /\ LastResult(status').status = "failed"
           /\ LastResult(status').reason \notin NoStreamReasons) =>
             /\ queue[key].st \in {"stream", "hash"}
             /\ fs' = fs
             /\ fs[Current(key).dest].exists
             /\ DistinctDests =>
                   fs[Current(key).dest].size = queue[key].totalWritten
     /\ DistinctDests =>
          \A k \in 1..Len(results) :
            (results[k].status = "failed" /\ results[k].reason \notin NoStreamReasons)
              => (fs'[results[k].file] = fs[results[k].file]
                  /\ fs[results[k].file].exists)]_vars

\* A download failed its hash check and the run ended: the file written is
\* still there, with the digest that did not match.
C21_Witness ==
  /\ pc = "returned"
  /\ DistinctDests
  /\ \E k \in 1..Len(results) :
       /\ results[k].status = "failed"
       /\ results[k].reason = "hash mismatch"
       /\ fs[results[k].file].exists
       /\ fs[results[k].file].size = MaxBytes
       /\ fs[results[k].file].hash = HOther

\* ---------------------------------------------------------------- C22
\* C22. Throughput windowing: at every moment the reported status.speed,
\* when it is not zero, was computed from samples none of which is older
\* than the trailing window at that moment.
C22_ThroughputWindowing ==
  \A t \in speedFrom : t >= now - SPEED_WINDOW_MS

\* ---------------------------------------------------------------- C23
TerminalPhases == {"completed", "failed"}

ProbeFailed(res) == res.kind \in {"error", "throw"}

\* C24. Probe failure is non-fatal: a failed probe yields size 0; preflight
\* never ends the process and can always take its next entry; the step
\* that logs size 0 classifies the entry by the table with the remote size
\* unknown and goes on to the next entry; an entry queued with size 0 is
\* downloaded, and the end of its stream never gives a size mismatch.
C24_ProbeFailureNonFatal ==
  [][/\ \A res \in ProbeResponses : ProbeFailed(res) => fetchFileSize(res) = 0
     /\ pc = "preflight" => pc' # "crashed"
     /\ (pc = "preflight" /\ i <= Len(models)) => ENABLED Preflight
     /\ (Len(preflightLog') > Len(preflightLog)
          /\ preflightLog'[Len(preflightLog')].size = 0) =>
            LET m == models[i]
                f == fs[m.dest]
                d == preflightLog'[Len(preflightLog')].decision
            IN /\ i' = i + 1
               /\ pc' = "preflight"
               /\ d = DecisionTable(f.exists, m.sha256 # Undefined,
                                    f.hash = m.sha256, FALSE, FALSE)
               /\ ~d.skip =>
                     /\ modelsWithSize' = Append(modelsWithSize,
                           [url |-> m.url, dest |-> m.dest,
                            sha256 |-> m.sha256, size |-> 0])
                     /\ status'.overallTotalBytes = status.overallTotalBytes
     /\ \A key \in DomainKeys :
          (StepCompletes(key) /\ Current(key).size = 0) =>
             /\ queue[key].st = "stream" => LastResult(status').status = "success"
             /\ LastResult(status').status = "failed" =>
                   LastResult(status').reason \in NoStreamReasons \cup {"hash mismatch"}
    ]_vars

\* The probe of the first entry gave size 0, the entry was downloaded all
\* the same and succeeded, and the second entry was classified after it.
C24_Witness ==
  /\ pc = "returned"
  /\ Len(preflightLog) = 2
  /\ preflightLog[1].size = 0
  /\ ~preflightLog[1].decision.skip
  /\ modelsWithSize[1].size = 0
  /\ HasResult(models[1].dest, "success")
  /\ fs[models[1].dest].size = MaxBytes

\* ---------------------------------------------------------------- C25
\* C25. Host-keyed credentials: a request carries the model-hub token only
\* when the host of its URL is the model-hub host, the community-model
\* token only when it is the community-model host, and no Authorization
\* header when it is any other host.
C25_HostKeyedCredentials ==
  /\ (authEnv.HF_TOKEN # "" /\ request.Authorization = Bearer(authEnv.HF_TOKEN)) =>
       request.url.hostname = HuggingFace
  /\ (authEnv.CIVITAI_TOKEN # ""
        /\ request.Authorization = Bearer(authEnv.CIVITAI_TOKEN)) =>
       request.url.hostname = Civitai
  /\ request.url.hostname \notin {HuggingFace, Civitai} =>
       request.Authorization = Undefined

\* ---------------------------------------------------------------- C26
\* Destinations of the entries whose download has started and not finished.
InFlightDests == {Current(k).dest : k \in ActiveKeys}

\* C26. Published active set: whenever a status request can be served,
\* status.currentFiles is the set of destinations whose download has
\* started and not yet finished, and it is empty throughout preflight and
\* in every terminal phase.
C26_PublishedActiveSet ==
  pc # "crashed" =>
    /\ status.currentFiles = (IF pc = "downloading" THEN InFlightDests ELSE {})
    /\ status.phase \in {"preflight", "completed", "failed"} =>
         status.currentFiles = {}

\* ---------------------------------------------------------------- C27
\* Destinations of the first n job entries classified as skip (or not), in
\* input order.
RECURSIVE ClassifiedDests(_, _)
ClassifiedDests(n, skip) ==
  IF n = 0 THEN <<>>
  ELSE IF preflightLog[n].decision.skip = skip
    THEN Append(ClassifiedDests(n - 1, skip), models[n].dest)
  ELSE ClassifiedDests(n - 1, skip)

\* No download request has been issued and nothing was written.
NoDownloadYet ==
  /\ \A k \in DomainKeys : queue[k] = IdleQueue
  /\ activeFiles = {}
  /\ status.overallDownloadedBytes = 0

\* C27. Preflight precedes download: the entries are probed and classified
\* one at a time in input order, each exactly once; no download request is
\* issued before all of them are classified; while the phase is preflight
\* every File Result is a skipped one.
C27_PreflightPrecedesDownload ==
  /\ Len(preflightLog) <= Len(models)
  /\ pc \in {"preflight", "downloading", "returned", "crashed"} /\ env.MODELS.present =>
       /\ Len(preflightLog) = i - 1
       /\ [k \in 1..Len(modelsWithSize) |-> modelsWithSize[k].dest]
            = ClassifiedDests(Len(preflightLog), FALSE)
  /\ Len(preflightLog) < Len(models) => NoDownloadYet
  /\ Phase = "preflight" =>
       /\ NoDownloadYet
       /\ [k \in 1..Len(results) |-> results[k].file]
            = ClassifiedDests(Len(preflightLog), TRUE)
       /\ \A k \in 1..Len(results) : results[k].status = "skipped"

\* All entries are classified, one as skipped and one for download, and the
\* download is in flight.
C27_Witness ==
  /\ pc = "downloading"
  /\ Len(preflightLog) = 2
  /\ NumSkipped(preflightLog) = 1
  /\ ActiveKeys # {}

\* ---------------------------------------------------------------- C28
\* Download attempts a host queue has started, and those that have ended.
Started(q) == IF q.st = "none" THEN 0 ELSE q.idx

Finished(q) ==
  IF q.st = "done" THEN q.idx ELSE IF q.st = "none" THEN 0 ELSE q.idx - 1

\* Every attempt is for the next entry of its queue, each ended attempt
\* left one File Result, and when main returns every entry requiring
\* download has had its attempt.
OneAttemptEach ==
  /\ \A k \in DomainKeys :
       /\ Started(queue[k]) <= Len(byDomain(modelsWithSize, k))
       /\ Started(queue[k]) - Finished(queue[k]) \in {0, 1}
  /\ pc # "start" =>
       Len(results) - NumSkipped(preflightLog)
         = Cardinality({e \in DomainKeys \X (1..Len(modelsWithSize)) :
                          e[2] <= Finished(queue[e[1]])})
  /\ (pc = "returned" /\ env.MODELS.present) =>
       \A k \in domains(modelsWithSize) :
         Finished(queue[k]) = Len(byDomain(modelsWithSize, k))

\* C28. No in-Worker retry: each entry requiring download gets exactly one
\* download attempt in a run; a non-success status or a missing body ends
\* the attempt with a failed File Result whose reason is the status text or
\* "no response body", and the queue goes on to its next entry (or ends)
\* without requesting the entry again.
C28_NoInWorkerRetry ==
  [][/\ OneAttemptEach'
     /\ \A k \in DomainKeys :
          /\ Started(queue'[k]) \in {Started(queue[k]), Started(queue[k]) + 1}
          /\ Finished(queue'[k]) \in {Finished(queue[k]), Finished(queue[k]) + 1}
          /\ (queue[k].st = "fetch" /\ Finished(queue'[k]) > Finished(queue[k])) =>
               \E r \in NoStreamReasons :
                 results' = Append(results, FileResult(Current(k).dest, "failed", r))]_vars

\* A run has ended in which a download was refused with a non-success
\* status and another entry of the same host was downloaded after it.
C28_Witness ==
  /\ pc = "returned"
  /\ Len(modelsWithSize) = 2
  /\ Cardinality(domains(modelsWithSize)) = 1
  /\ Len(results) = 2
  /\ results[1].status = "failed" /\ results[1].reason = HttpFailureReason
  /\ results[2].status = "success"

\* ---------------------------------------------------------------- C29
\* Hosts of the job list.
JobHosts == {getDomain(models[k].url) : k \in 1..Len(models)}

\* The entry in flight on host k can take its next step now.
CanProceed(k) ==
  /\ queue[k].st = "fetch" => ENABLED FetchOk(k) /\ ENABLED FetchNotOk(k)
  /\ queue[k].st = "stream" => ENABLED ReadDone(k)
  /\ queue[k].st = "hash" => ENABLED HashVerified(k)

\* C29. Cross-host concurrency: while the Worker downloads, the queue of
\* every host with an entry requiring download has started, the entry in
\* flight on a host can take its next step whatever the state of the other
\* hosts' queues, and at most one entry per distinct host is active.
C29_CrossHostConcurrency ==
  /\ Cardinality(ActiveKeys) <= Cardinality(domains(modelsWithSize))
  /\ domains(modelsWithSize) \subseteq JobHosts
  /\ Cardinality(status.currentFiles) <= Cardinality(JobHosts)
  /\ pc = "downloading" =>
       /\ \A k \in domains(modelsWithSize) : queue[k].st # "none"
       /\ \A k \in ActiveKeys : CanProceed(k)

\* One entry of each of two hosts is active at the same time: one host has
\* not answered the download request yet, the other is streaming.
C29_Witness ==
  /\ pc = "downloading"
  /\ Cardinality(status.currentFiles) = 2
  /\ \E k1, k2 \in ActiveKeys :
       /\ k1 # k2
       /\ queue[k1] = [st |-> "fetch", idx |-> 1, totalWritten |-> 0]
       /\ queue[k2].st = "stream"
       /\ queue[k2].totalWritten = 1

\* ---------------------------------------------------------------- C30
\* C30. Interrupted download across a retry: when a Worker was ended while
\* an entry without a configured hash was only partly written, a later
\* Worker on the same volume does not end `completed` with that entry
\* reported skipped while the file is still the truncated one.
C30_InterruptedDownloadRetried ==
  (DistinctDests /\ pc = "returned" /\ Phase = "completed") =>
    \A k \in 1..Len(models) :
      (models[k].sha256 = Undefined /\ models[k].dest \in partial) =>
        ~HasResult(models[k].dest, "skipped")

\* ================================================ claims on setup(), II
\* ---------------------------------------------------------------- C31
\* Pods this invocation of setup() created, and pods it reused.
CreatedPods == {NewPodId(a) : a \in 1..maxAttempts}

ReusedPods == {e[2] : e \in polls.reused}

\* C31. No leaked Worker host: when setup() has finished, by returning or
\* by throwing, no pod it created or reused exists any more.
C31_NoLeakedWorkerHost ==
  SetupEnded => \A id \in CreatedPods \cup ReusedPods : ~pods[id].exists

\* ---------------------------------------------------------------- C32
\* Destinations in the results of the final status: a Worker whose main()
\* ran to `completed` has a File Result for every entry of its MODELS.
FinalResultFiles == podWorker.models

\* C32. End-to-end result correspondence: when setup() returns normally,
\* the final status is a completed one with no failure and its results
\* are for the destinations of this invocation's config.models.
C32_EndToEndCorrespondence ==
  sp.pc = "returned" =>
    /\ sp.finalStatus.phase = "completed"
    /\ sp.finalStatus.failed = 0
    /\ FinalResultFiles = ConfigModels

\* ---------------------------------------------------------------- C33
\* The Worker polled by setup() has reached a terminal phase.
WorkerTerminal == podWorker.doc.phase \in TerminalPhases

\* The pod polled runs and its Worker accepts the token setup() sends.
WorkerReachable ==
  /\ pods[sp.cpuPodId].exists
  /\ pods[sp.cpuPodId].desiredStatus = "RUNNING"
  /\ pods[sp.cpuPodId].token = "" \/ pods[sp.cpuPodId].token = sp.statusToken

\* C33. Terminal status is eventually observed: the status
\* pollDownloadProgress returns always has a terminal phase; a reachable
\* Worker answers a poll with its document also once its phase is terminal;
\* and when the Worker polled is terminal, the poller comes to hold that
\* document as the final status unless a poll fails.
C33_TerminalStatusObserved ==
  /\ [](sp.finalStatus # NoStatus => sp.finalStatus.phase \in TerminalPhases)
  /\ []((sp.pc = "poll" /\ WorkerTerminal /\ WorkerReachable) =>
          [ok |-> TRUE, took |-> 0, doc |-> podWorker.doc] \in PollAnswers)
  /\ (sp.pc = "poll" /\ WorkerTerminal /\ polls.last # "fail")
       ~> (sp.finalStatus = podWorker.doc \/ polls.last = "fail")

\* In a second attempt the Worker completed while being polled, and the
\* poll after that returned its document.
C33_Witness ==
  /\ sp.pc = "deleteDone"
  /\ sp.attempt = 2
  /\ polls.last = "ok"
  /\ sp.finalStatus = podWorker.doc
  /\ sp.finalStatus = Doc("completed", 1, 0, Undefined)

\* ================================================ claims on the Worker, III
\* ---------------------------------------------------------------- C34
\* C34 as stated. Consistent snapshots: no status document that can be
\* served lists a destination both in currentFiles and in results.
C34_ConsistentSnapshots ==
  pc # "crashed" =>
    serializeStatus(status).currentFiles \cap ResultFiles = {}

\* C34, amended. The published active set is the active set after every
\* step: a destination enters it in the step in which it becomes active,
\* and the step that records an entry's result also removes the entry and
\* publishes.  For a job list with pairwise distinct destinations no
\* destination is then both in currentFiles and in results.
C34_ConsistentSnapshotsDistinct ==
  [][/\ status'.currentFiles = activeFiles'
     /\ (pc = "downloading" /\ Len(results') > Len(results)) =>
          \E k \in ActiveKeys :
            /\ LastResult(status').file = Current(k).dest
            /\ queue'[k] # queue[k]
            /\ DistinctDests => Current(k).dest \notin status'.currentFiles
     /\ (DistinctDests /\ pc' # "crashed") =>
          serializeStatus(status').currentFiles
            \cap {results'[k].file : k \in 1..Len(results')} = {}]_vars

\* Distinct destinations on one host: the first entry has its result and
\* the second is active.
C34_Witness ==
  /\ DistinctDests
  /\ pc = "downloading"
  /\ Len(results) = 1
  /\ results[1].file = DestOf(1)
  /\ results[1].status # "skipped"
  /\ status.currentFiles = {DestOf(2)}
  /\ Cardinality(domains(modelsWithSize)) = 1

\* ---------------------------------------------------------------- C35
\* C35. Byte accounting bound: overallDownloadedBytes is never negative
\* and never exceeds overallTotalBytes, the sum of the probed sizes of the
\* entries requiring download.
C35_ByteAccountingBound ==
  /\ status.overallTotalBytes = TotalSize(modelsWithSize)
  /\ status.overallDownloadedBytes >= 0
  /\ status.overallDownloadedBytes <= status.overallTotalBytes

\* ---------------------------------------------------------------- C36
\* Pods created by this invocation that exist.
LivePods(ps) == {id \in CreatedPods : ps[id].exists}

\* C36. At most one live Worker host: at most one pod created by this
\* invocation of setup() exists at any time, and a pod is created only
\* when every pod created in an earlier attempt has been deleted.
C36_AtMostOneLiveHost ==
  [][/\ Cardinality(LivePods(pods')) <= 1
     /\ LivePods(pods') \ LivePods(pods) # {} =>
          /\ LivePods(pods) = {}
          /\ LivePods(pods') = {NewPodId(sp.attempt)}]_vars

\* The pods of the first two attempts were created and deleted, and the
\* pod of the third attempt exists.
C36_Witness ==
  /\ sp.attempt = 3
  /\ LivePods(pods) = {NewPodId(3)}
  /\ {NewPodId(1), NewPodId(2)} \subseteq polls.deleted

\* ---------------------------------------------------------------- C37
\* C37. Existing file preserved on early failure: the step in which a
\* download fails with a non-success status or a missing body is taken
\* from the pending request of that entry, before its destination was
\* opened, and leaves every file as it is.
C37_ExistingFilePreserved ==
  [][(/\ pc = "downloading"
      /\ Len(results') = Len(results) + 1
      /\ LastResult(status').status = "failed"
      /\ LastResult(status').reason \in NoStreamReasons) =>
        /\ fs' = fs
        /\ \E k \in ActiveKeys :
             /\ queue[k].st = "fetch"
             /\ queue'[k] # queue[k]
             /\ Current(k).dest = LastResult(status').file]_vars

\* The only entry's destination held a file (of another hash than the
\* configured one), its download got no response body, and the file is
\* there with its size.
C37_Witness ==
  /\ Len(models) = 1
  /\ Len(results) = 1
  /\ results[1].status = "failed"
  /\ results[1].reason = "no response body"
  /\ fs[models[1].dest].exists
  /\ fs[models[1].dest].size = 2

====
